---- MODULE Spec2Model ----
(***************************************************************************)
(* Confidence histogram cache and threshold-query engine of yfcc-scope.   *)
(*                                                                         *)
(* The PostgreSQL database is the shared state: bb_table (the Detection   *)
(* Store), yfcc_index (the image index) and the two aggregate tables      *)
(* yfcc_label_conf_hist and yfcc_images_maxbin_hist.  The processes are   *)
(* the detection pipeline (yfcc_yolo_to_postgres.py), POST /recalc        *)
(* (rebuild_histograms), GET /freqs (the threshold reads) and              *)
(* GET /api/images (the range-filter query), each on its own psycopg2     *)
(* connection, i.e. its own READ COMMITTED transaction.                   *)
(*                                                                         *)
(* Request parameters are texts, sequences of one-character strings, and  *)
(* are parsed as the code parses them (strip, split, int).                *)
(*                                                                         *)
(* Confidences and thresholds are fixed-point numbers: the integer k      *)
(* stands for k / Scale, Scale = 10^8, so that the build-side epsilon     *)
(* 0.000001 (added to confidence * 100) is exactly one unit.              *)
(***************************************************************************)
EXTENDS Integers, Sequences, FiniteSets, TLC

(* ------------------------------ bounds --------------------------------- *)
\* images of the dataset table the pipeline walks through (image_id 1..NumImages)
NumImages == 2
\* largest number of boxes the detector returns for one image
MaxBoxes == 2
\* largest value of the wall clock int(time.time())
MaxTime == 2
\* largest number of comma-separated terms of a conf parameter
MaxTerms == 3
\* rows of the dataset table the pipeline indexes in one transaction
\* (chunk_size, 4000 in the source)
ChunkSize == 2
\* largest number of times the pipeline script is started
MaxRuns == 2

(* --------------------------- fixed-point scale -------------------------- *)
\* the value 1.0
Scale == 100000000
\* the value 0.01, the width of one bin
BinWidth == 1000000

\* The fixed vocabulary of the dashboard (80 labels in the source, two here).
LABELS == {"cat", "dog"}

\* What the detector can return for a box: (label, score), here 0.457 and
\* 0.90.  The labels are the class names of the model file, so a label
\* outside LABELS can occur.
Detections == { <<"cat", 45700000>>, <<"unicorn", 90000000>> }

\* min_conf values a request can carry: -0.5, 0, 0.45, 0.456, 1.0, 1.5
Thresholds == { -50000000, 0, 45000000, 45600000, 100000000, 150000000 }

\* the default of the min_conf parameter, 0.4
DefaultMinConf == 40000000

\* the min_conf parameter of a /freqs request: absent, a number, or text that
\* float() rejects
MinConfParams ==
  { [ kind |-> "absent", value |-> 0 ], [ kind |-> "text", value |-> 0 ] } \cup
  { [ kind |-> "float", value |-> T ] : T \in Thresholds }

\* Terms a conf parameter can be written from: the text of the term, and
\* what the writer meant by it (an integer a, a pair a-b, nothing, or not a
\* number).
ConfTerms ==
  { [ text |-> << "4", "0", "-", "4", "5" >>,      kind |-> "pair",  a |-> 40,  b |-> 45 ],
    [ text |-> << "5", "0" >>,                     kind |-> "int",   a |-> 50,  b |-> 50 ],
    [ text |-> << "9", "0", "-", "1", "0", "0" >>, kind |-> "pair",  a |-> 90,  b |-> 100 ],
    [ text |-> << "4", "5", "-", "4", "0" >>,      kind |-> "pair",  a |-> 45,  b |-> 40 ],
    [ text |-> << "1", "5", "0" >>,                kind |-> "int",   a |-> 150, b |-> 150 ],
    [ text |-> << "1", "0", "0" >>,                kind |-> "int",   a |-> 100, b |-> 100 ],
    [ text |-> << "4", "5" >>,                     kind |-> "int",   a |-> 45,  b |-> 45 ],
    [ text |-> << " ", "4", "5" >>,                kind |-> "int",   a |-> 45,  b |-> 45 ],
    [ text |-> << "5", "-", "-", "3" >>,           kind |-> "pair",  a |-> 5,   b |-> 0 - 3 ],
    [ text |-> << >>,                              kind |-> "empty", a |-> 0,   b |-> 0 ],
    [ text |-> << " " >>,                          kind |-> "empty", a |-> 0,   b |-> 0 ],
    [ text |-> << "x" >>,                          kind |-> "text",  a |-> 0,   b |-> 0 ],
    [ text |-> << "4", "0", "-" >>,                kind |-> "nobound", a |-> 40, b |-> 0 ],
    [ text |-> << "-", "5" >>,                     kind |-> "nobound", a |-> 0,  b |-> 5 ] }

RECURSIVE TermLists(_)
\* the lists of at most n terms
TermLists(n) ==
  IF n = 0 THEN { << >> }
  ELSE TermLists(n - 1) \cup
       { Append(l, t) : l \in { m \in TermLists(n - 1) : Len(m) = n - 1 }, t \in ConfTerms }

RECURSIVE Join(_)
\* the conf parameter written from a list of terms: the texts with commas between
Join(terms) ==
  IF terms = << >> THEN << >>
  ELSE IF Len(terms) = 1 THEN terms[1].text
  ELSE terms[1].text \o << "," >> \o Join(Tail(terms))

\* the conf parameters of the /api/images requests of the model: none, '45',
\* '90-100', '45,90-100', '45,,50' and 'x'
RequestTermLists ==
  { l \in TermLists(MaxTerms) :
      \/ l = << >>
      \/ Join(l) \in { << "4", "5" >>,
                       << "9", "0", "-", "1", "0", "0" >>,
                       << "4", "5", ",", "9", "0", "-", "1", "0", "0" >>,
                       << "4", "5", ",", ",", "5", "0" >>,
                       << "x" >> } }

\* the label parameters of a request, in the order sent ("" is a blank one)
LabelParams ==
  { << >>, << "cat" >>, << "unicorn" >>, << "dog" >>, << "cat", "unicorn" >>,
    << "unicorn", "cat", "cat" >>, << "cat", "" >> }

\* the limit parameters: absent, '1', '0', '999', 'x'
LimitParams ==
  { [ given |-> FALSE, text |-> << >> ],
    [ given |-> TRUE, text |-> << "1" >> ],
    [ given |-> TRUE, text |-> << "0" >> ],
    [ given |-> TRUE, text |-> << "9", "9", "9" >> ],
    [ given |-> TRUE, text |-> << "x" >> ] }

\* the offset parameters: absent, '1', '-1', 'x'
OffsetParams ==
  { [ given |-> FALSE, text |-> << >> ],
    [ given |-> TRUE, text |-> << "1" >> ],
    [ given |-> TRUE, text |-> << "-", "1" >> ],
    [ given |-> TRUE, text |-> << "x" >> ] }

Rebuilders == {"r1"}
\* two POST /recalc requests in flight at the same time
Overlapping == {"r1", "r2"}
Readers == {"q1"}

VARIABLES
  bb_table,                 \* Detection Store: sequence of rows, insertion order
  yfcc_index,               \* image index: set of image_file_id
  yfcc_index_ts,            \* column ts of the image index: image_file_id -> now() of
                            \* the transaction that last upserted the row
  last_image_id,            \* pipeline: last image_id committed by the loop
  hist_exists,              \* the two aggregate tables have been created
  yfcc_label_conf_hist,     \* committed rows of the label histogram
  yfcc_images_maxbin_hist,  \* committed rows of the max-bin histogram
  clock,                    \* int(time.time()) when it was last read
  rb,                       \* per rebuild request: position and transaction
  rd,                       \* per /freqs request: position and results
  ia,                       \* the /api/images request: position, locals, response
  hist                      \* history of commits (for stating properties)

vars == << bb_table, yfcc_index, yfcc_index_ts, last_image_id, hist_exists,
           yfcc_label_conf_hist, yfcc_images_maxbin_hist, clock, rb, rd, ia, hist >>

(* ------------------------------ helpers -------------------------------- *)
Max(a, b) == IF a >= b THEN a ELSE b
Min(a, b) == IF a <= b THEN a ELSE b

\* the bins 0..100
Bins == 0 .. 100

(* ------------------------------ binning -------------------------------- *)
\* Python round(c, 2): the nearest multiple of 0.01, a tie going to the even
\* multiple.  (The thresholds of the model are decimals whose nearest double
\* rounds the same way.)
round2(c) ==
  LET q == c \div BinWidth
      r == c % BinWidth
  IN  IF 2 * r < BinWidth THEN q * BinWidth
      ELSE IF 2 * r > BinWidth THEN (q + 1) * BinWidth
      ELSE IF q % 2 = 0 THEN q * BinWidth ELSE (q + 1) * BinWidth

\* the same without the clamp
clamp01_none(x) == x

\* max(0.0, min(1.0, x))
clamp01(x) == Max(0, Min(Scale, x))

\* Query-side bin: c = clamp(round(c, 2)); int(round(c * 100)).
conf_to_bin(c) == clamp01(round2(c)) \div BinWidth

\* the same with LEAST(99, ...)
conf_bin_below_100(confidence_score) ==
  Max(0, Min(99, (confidence_score + 1) \div BinWidth))

\* Build-side bin, the SQL expression
\*   GREATEST(0, LEAST(100, FLOOR(confidence_score * 100.0 + 0.000001)))
\* (confidence * 100 + 0.000001 is (k + 1) / 10^6 for the fixed-point k).
conf_bin(confidence_score) ==
  Max(0, Min(100, (confidence_score + 1) \div BinWidth))

(* --------------------------- the SQL statements ------------------------- *)
\* WHERE confidence_score IS NOT NULL: the column is declared NOT NULL, so
\* every row of bb_table passes
ScoredRows(bb) == DOMAIN bb

\* the same with COUNT(DISTINCT image_file_id) in place of COUNT(*)
label_hist_select_distinct(bb, now) ==
  LET keys == { <<bb[i].label, conf_bin(bb[i].confidence_score)>> : i \in ScoredRows(bb) }
  IN  { [ label      |-> k[1],
          conf_bin   |-> k[2],
          box_count  |-> Cardinality({ bb[i].image_file_id : i \in { j \in ScoredRows(bb) :
                            /\ bb[j].label = k[1]
                            /\ conf_bin(bb[j].confidence_score) = k[2] } }),
          updated_at |-> now ] : k \in keys }

\* SELECT label, conf_bin, COUNT(*), now FROM bb_table GROUP BY label, conf_bin
label_hist_select(bb, now) ==
  LET keys == { <<bb[i].label, conf_bin(bb[i].confidence_score)>> : i \in ScoredRows(bb) }
  IN  { [ label      |-> k[1],
          conf_bin   |-> k[2],
          box_count  |-> Cardinality({ i \in ScoredRows(bb) :
                            /\ bb[i].label = k[1]
                            /\ conf_bin(bb[i].confidence_score) = k[2] }),
          updated_at |-> now ] : k \in keys }

\* MAX(confidence_score) of one image_file_id group
max_confidence(bb, img) ==
  LET cs == { bb[i].confidence_score : i \in { j \in ScoredRows(bb) : bb[j].image_file_id = img } }
  IN  CHOOSE c \in cs : \A d \in cs : d <= c

\* the same without the per-image CTE: every detection is binned and counted
maxbin_hist_select_rows(bb, now) ==
  { [ max_bin     |-> b,
      image_count |-> Cardinality({ i \in ScoredRows(bb) : conf_bin(bb[i].confidence_score) = b }),
      updated_at  |-> now ] : b \in { conf_bin(bb[i].confidence_score) : i \in ScoredRows(bb) } }

\* WITH maxbin AS (SELECT image_file_id, bin(MAX(confidence_score)) ... GROUP BY
\* image_file_id) SELECT max_bin, COUNT(*), now FROM maxbin GROUP BY max_bin
maxbin_hist_select(bb, now) ==
  LET imgs     == { bb[i].image_file_id : i \in ScoredRows(bb) }
      maxbin   == [ img \in imgs |-> conf_bin(max_confidence(bb, img)) ]
  IN  { [ max_bin     |-> b,
          image_count |-> Cardinality({ img \in imgs : maxbin[img] = b }),
          updated_at  |-> now ] : b \in { maxbin[img] : img \in imgs } }

\* the same without the TRUNCATE
truncate_keeps(table) == table

\* TRUNCATE: the table has no rows afterwards
truncate(table) == {}

\* primary key (label, conf_bin) of yfcc_label_conf_hist
label_hist_conflict(table, rows) ==
  \E t \in table, r \in rows : t.label = r.label /\ t.conf_bin = r.conf_bin

\* primary key max_bin of yfcc_images_maxbin_hist
maxbin_hist_conflict(table, rows) ==
  \E t \in table, r \in rows : t.max_bin = r.max_bin

\* the except branch ends the transaction with COMMIT instead of ROLLBACK
rollback_commits(committed, written) == written

\* ROLLBACK (or the connection closing on an open transaction): the committed
\* rows stay, the rows written by the transaction are dropped
rollback(committed, written) == committed

(* ------------------------- detection pipeline -------------------------- *)
\* the detector's output for one image: up to MaxBoxes (label, score) pairs
RECURSIVE BoxSeqs(_)
BoxSeqs(n) ==
  IF n = 0 THEN { <<>> }
  ELSE BoxSeqs(n - 1) \cup
       { Append(s, d) : s \in { t \in BoxSeqs(n - 1) : Len(t) = n - 1 }, d \in Detections }

\* bbox_buffer rows of one image: enumerate(bboxes, start=1)
bbox_rows(image_file_id, bboxes) ==
  [ i \in 1 .. Len(bboxes) |->
      [ image_file_id       |-> image_file_id,
        bounding_box_number |-> i,
        label               |-> bboxes[i][1],
        confidence_score    |-> bboxes[i][2] ] ]

(* ------------------------ threshold query engine ----------------------- *)
RECURSIVE SumBoxCount(_)
\* SUM(box_count) over a set of histogram rows
SumBoxCount(rows) ==
  IF rows = {} THEN 0
  ELSE LET r == CHOOSE x \in rows : TRUE IN r.box_count + SumBoxCount(rows \ {r})

RECURSIVE SumImageCount(_)
\* SUM(image_count) over a set of max-bin rows
SumImageCount(rows) ==
  IF rows = {} THEN 0
  ELSE LET r == CHOOSE x \in rows : TRUE IN r.image_count + SumImageCount(rows \ {r})

\* the same with WHERE conf_bin > tb
label_rows_select_above(table, tb) ==
  LET hit == { r \in table : r.conf_bin > tb }
  IN  { << lab, SumBoxCount({ r \in hit : r.label = lab }) >> : lab \in { r.label : r \in hit } }

\* SELECT label, COALESCE(SUM(box_count),0) FROM yfcc_label_conf_hist
\* WHERE conf_bin >= tb GROUP BY label
label_rows_select(table, tb) ==
  LET hit == { r \in table : r.conf_bin >= tb }
  IN  { << lab, SumBoxCount({ r \in hit : r.label = lab }) >> : lab \in { r.label : r \in hit } }

\* SELECT COALESCE(MAX(updated_at),0) FROM yfcc_label_conf_hist
updated_at_select(table) ==
  IF table = {} THEN 0
  ELSE CHOOSE u \in { r.updated_at : r \in table } : \A r \in table : r.updated_at <= u

\* counts = {lab: 0 for lab in LABELS}; for lab, cnt in label_rows:
\*   if lab in counts: counts[lab] = int(cnt)
counts_of(label_rows) ==
  [ lab \in LABELS |->
      IF \E row \in label_rows : row[1] = lab
      THEN (CHOOSE row \in label_rows : row[1] = lab)[2]
      ELSE 0 ]

RECURSIVE SumCounts(_, _)
\* sum(counts.values())
SumCounts(counts, labs) ==
  IF labs = {} THEN 0
  ELSE LET l == CHOOSE x \in labs : TRUE IN counts[l] + SumCounts(counts, labs \ {l})

\* read_label_counts_at_threshold over one state of the label histogram
read_label_counts_at_threshold(table, min_conf) ==
  LET tb     == conf_to_bin(min_conf)
      counts == counts_of(label_rows_select(table, tb))
  IN  [ counts      |-> counts,
        total_boxes |-> SumCounts(counts, DOMAIN counts),
        updated_at  |-> updated_at_select(table) ]

\* the same without the guard of a zero total
labels_payload_unguarded(counts, total_boxes) ==
  [ lab \in LABELS |-> [ num |-> counts[lab], den |-> total_boxes ] ]

\* labels_payload of freqs_api: per label of LABELS the fraction
\* float(cnt) / float(total_boxes), written num over den, and 0.0 (0 over 1)
\* when total_boxes is 0
labels_payload(counts, total_boxes) ==
  [ lab \in LABELS |->
      IF total_boxes # 0 THEN [ num |-> counts[lab], den |-> total_boxes ]
      ELSE [ num |-> 0, den |-> 1 ] ]

\* the same with WHERE max_bin = tb
images_select_equal(table, tb) == SumImageCount({ r \in table : r.max_bin = tb })

\* SELECT COALESCE(SUM(image_count),0) FROM yfcc_images_maxbin_hist WHERE max_bin >= tb
images_select(table, tb) == SumImageCount({ r \in table : r.max_bin >= tb })

\* read_images_with_boxes_at_threshold over one state of the max-bin histogram
read_images_with_boxes_at_threshold(table, min_conf) ==
  images_select(table, conf_to_bin(min_conf))

\* recalc_freqs swallows the exception (except: pass)
recalc_freqs_response_swallow(raised) ==
  [ status |-> 200, text |-> "ok (hist rebuilt)" ]

\* recalc_freqs: the response for a rebuild that raised or returned
recalc_freqs_response(raised) ==
  IF raised THEN [ status |-> 500, text |-> "recalc failed" ]
  ELSE [ status |-> 200, text |-> "ok (hist rebuilt)" ]

(* ---------------------- request parameters as text --------------------- *)
\* A Python str is a sequence of one-character strings.
Digits == { "0", "1", "2", "3", "4", "5", "6", "7", "8", "9" }

DigitValue(c) ==
  CASE c = "0" -> 0 [] c = "1" -> 1 [] c = "2" -> 2 [] c = "3" -> 3 [] c = "4" -> 4
    [] c = "5" -> 5 [] c = "6" -> 6 [] c = "7" -> 7 [] c = "8" -> 8 [] c = "9" -> 9

RECURSIVE lstrip(_)
lstrip(s) == IF s # << >> /\ Head(s) = " " THEN lstrip(Tail(s)) ELSE s

RECURSIVE rstrip(_)
rstrip(s) == IF s # << >> /\ s[Len(s)] = " " THEN rstrip(SubSeq(s, 1, Len(s) - 1)) ELSE s

\* str.strip()
strip(s) == rstrip(lstrip(s))

\* position of the first sep in s, 0 when there is none
find(s, sep) ==
  IF \E i \in DOMAIN s : s[i] = sep
  THEN CHOOSE i \in DOMAIN s : s[i] = sep /\ \A j \in 1 .. (i - 1) : s[j] # sep
  ELSE 0

RECURSIVE split(_, _)
\* str.split(sep): the pieces between the separators, empty pieces included
split(s, sep) ==
  LET i == find(s, sep)
  IN  IF i = 0 THEN << s >>
      ELSE << SubSeq(s, 1, i - 1) >> \o split(SubSeq(s, i + 1, Len(s)), sep)

RECURSIVE digits_value(_)
\* the number a sequence of decimal digits denotes
digits_value(s) ==
  IF s = << >> THEN 0
  ELSE 10 * digits_value(SubSeq(s, 1, Len(s) - 1)) + DigitValue(s[Len(s)])

\* int(s): surrounding whitespace is ignored, then an optional sign and at
\* least one digit; anything else raises ValueError (ok = FALSE)
py_int(s) ==
  LET t      == strip(s)
      signed == t # << >> /\ t[1] \in { "-", "+" }
      body   == IF signed THEN Tail(t) ELSE t
  IN  IF body # << >> /\ \A i \in DOMAIN body : body[i] \in Digits
      THEN [ ok |-> TRUE,
             value |-> IF signed /\ t[1] = "-" THEN 0 - digits_value(body) ELSE digits_value(body) ]
      ELSE [ ok |-> FALSE, value |-> 0 ]

(* ------------------------ range-filter query engine --------------------- *)
\* the same with an inclusive upper bound hi_bin / 100.0
parse_part_inclusive(part) ==
  LET i      == find(part, "-")
      lo_s   == IF i = 0 THEN part ELSE SubSeq(part, 1, i - 1)
      hi_s   == IF i = 0 THEN part ELSE SubSeq(part, i + 1, Len(part))
      lo_c   == Max(0, Min(100, py_int(lo_s).value))
      hi_c   == Max(0, Min(100, py_int(hi_s).value))
      lo_bin == IF lo_c > hi_c THEN hi_c ELSE lo_c
      hi_bin == IF lo_c > hi_c THEN lo_c ELSE hi_c
  IN  [ ok    |-> py_int(lo_s).ok /\ py_int(hi_s).ok,
        range |-> << lo_bin * BinWidth, Min(hi_bin * BinWidth, Scale) >> ]

\* one term of the loop body of parse_conf_ranges_0_100 (part is stripped and
\* not empty): the int() conversions, clamp, swap, and (lo, hi) with hi
\* exclusive and cut at 1.0; ok = FALSE when an int() raises
parse_part(part) ==
  LET i      == find(part, "-")
      lo_s   == IF i = 0 THEN part ELSE SubSeq(part, 1, i - 1)
      hi_s   == IF i = 0 THEN part ELSE SubSeq(part, i + 1, Len(part))
      lo_c   == Max(0, Min(100, py_int(lo_s).value))
      hi_c   == Max(0, Min(100, py_int(hi_s).value))
      lo_bin == IF lo_c > hi_c THEN hi_c ELSE lo_c
      hi_bin == IF lo_c > hi_c THEN lo_c ELSE hi_c
  IN  [ ok    |-> py_int(lo_s).ok /\ py_int(hi_s).ok,
        range |-> << lo_bin * BinWidth, Min((hi_bin + 1) * BinWidth, Scale) >> ]

RECURSIVE parse_parts_skip_bad(_, _)
\* the same with a term that int() rejects skipped (except ValueError: continue)
parse_parts_skip_bad(parts, ranges) ==
  IF parts = << >> THEN [ raised |-> FALSE, ranges |-> ranges ]
  ELSE LET part == strip(Head(parts)) IN
       IF part = << >> \/ ~ parse_part(part).ok
       THEN parse_parts_skip_bad(Tail(parts), ranges)
       ELSE parse_parts_skip_bad(Tail(parts), Append(ranges, parse_part(part).range))

RECURSIVE parse_parts(_, _)
\* for part in conf_str.split(","): strip; an empty part is skipped; the
\* first int() that raises ends the function
parse_parts(parts, ranges) ==
  IF parts = << >> THEN [ raised |-> FALSE, ranges |-> ranges ]
  ELSE LET part == strip(Head(parts)) IN
       IF part = << >> THEN parse_parts(Tail(parts), ranges)
       ELSE IF ~ parse_part(part).ok THEN [ raised |-> TRUE, ranges |-> << >> ]
       ELSE parse_parts(Tail(parts), Append(ranges, parse_part(part).range))

\* parse_conf_ranges_0_100: raised (ValueError), or the list of (lo, hi);
\* none = TRUE stands for the return value None (no filter)
parse_conf_ranges_0_100(conf_str) ==
  IF conf_str = << >> THEN [ raised |-> FALSE, none |-> TRUE, ranges |-> << >> ]
  ELSE LET r == parse_parts(split(conf_str, ","), << >>)
       IN  [ raised |-> r.raised,
             none   |-> ~ r.raised /\ r.ranges = << >>,
             ranges |-> r.ranges ]

\* the confidence clause of the query: nothing when conf_ranges is None,
\* else (b.confidence_score >= lo AND b.confidence_score < hi) OR ...
conf_sql(confidence_score, conf_ranges) ==
  \/ conf_ranges.none
  \/ \E i \in DOMAIN conf_ranges.ranges :
       /\ confidence_score >= conf_ranges.ranges[i][1]
       /\ confidence_score < conf_ranges.ranges[i][2]

\* set(labels)
label_set(labels) == { labels[i] : i \in DOMAIN labels }

\* the labels of the joined rows of one image that pass the WHERE clause
labels_hit(bb, img, labels, conf_ranges) ==
  { bb[i].label : i \in { j \in DOMAIN bb :
                            /\ bb[j].image_file_id = img
                            /\ bb[j].label \in label_set(labels)
                            /\ conf_sql(bb[j].confidence_score, conf_ranges) } }

\* the same with HAVING COUNT(DISTINCT b.label) = len(labels)
images_having_labels_len(bb, index, labels, conf_ranges) ==
  { img \in index :
      /\ labels_hit(bb, img, labels, conf_ranges) # {}
      /\ Cardinality(labels_hit(bb, img, labels, conf_ranges)) = Len(labels) }

\* the same with HAVING COUNT(DISTINCT b.label) >= 1 (any requested label)
images_having_labels_any(bb, index, labels, conf_ranges) ==
  { img \in index : labels_hit(bb, img, labels, conf_ranges) # {} }

\* FROM yfcc_index y JOIN bb_table b ... WHERE b.label = ANY(labels) AND conf
\* GROUP BY y.image_file_id HAVING COUNT(DISTINCT b.label) = len(set(labels))
images_having_labels(bb, index, labels, conf_ranges) ==
  { img \in index :
      /\ labels_hit(bb, img, labels, conf_ranges) # {}
      /\ Cardinality(labels_hit(bb, img, labels, conf_ranges)) = Cardinality(label_set(labels)) }

\* y.ts of an index row (MAX(y.ts) of its group: one index row per image)
index_ts(image_file_id) == yfcc_index_ts[image_file_id]

\* ORDER BY ts DESC: the orders in which the rows can come back.  There is no
\* second sort key, so rows with equal ts come in an order the executor
\* chooses, call by call.
order_by_ts_desc(imgs) ==
  { rows \in [ 1 .. Cardinality(imgs) -> imgs ] :
      \A i, j \in DOMAIN rows :
        i < j => rows[i] # rows[j] /\ index_ts(rows[i]) >= index_ts(rows[j]) }

\* LIMIT limit OFFSET offset
limit_offset(rows, limit, offset) ==
  SubSeq(rows, offset + 1, Min(Len(rows), offset + limit))

\* the same with the branch for no labels restricted to the images that have
\* a box passing the confidence clause
fetch_images_for_labels_with_boxes(bb, index, labels, limit, offset, conf_ranges) ==
  { limit_offset(rows, limit, offset) :
      rows \in order_by_ts_desc(IF labels # << >>
                                THEN images_having_labels(bb, index, labels, conf_ranges)
                                ELSE { img \in index : \E i \in DOMAIN bb :
                                         /\ bb[i].image_file_id = img
                                         /\ conf_sql(bb[i].confidence_score, conf_ranges) }) }

\* fetch_images_for_labels: the lists of image_file_id the call can return
fetch_images_for_labels(bb, index, labels, limit, offset, conf_ranges) ==
  { limit_offset(rows, limit, offset) :
      rows \in order_by_ts_desc(IF labels # << >>
                                THEN images_having_labels(bb, index, labels, conf_ranges)
                                ELSE index) }

(* ------------------------------- state --------------------------------- *)
NoResponse == [ status |-> 0, text |-> "none" ]

\* a rebuild request that has not started
RbIdle ==
  [ pc        |-> "idle",      \* position in recalc_freqs / rebuild_histograms
    now       |-> 0,           \* now = int(time.time())
    tx_label  |-> {},          \* rows of yfcc_label_conf_hist as the open transaction sees them
    tx_maxbin |-> {},          \* rows of yfcc_images_maxbin_hist as the open transaction sees them
    locks     |-> {},          \* tables on which the transaction holds ACCESS EXCLUSIVE
    raised    |-> FALSE,       \* rebuild_histograms raised
    failed_at |-> "none",      \* where it failed: open_conn, ensure, try, commit, rollback
    response  |-> NoResponse ]

\* a /freqs request that has not started
RdIdle ==
  [ pc           |-> "idle",
    min_conf     |-> 0,
    label_rows   |-> {},
    share        |-> {},       \* tables on which the open read holds ACCESS SHARE
    counts       |-> [ lab \in LABELS |-> 0 ],
    total_boxes  |-> 0,
    updated_at   |-> 0,
    images       |-> 0,
    total_images |-> 0,
    labels_payload |-> << >>,  \* per label the fraction, as count over total
    status       |-> 0 ]

\* safety cap of the page size
MAX_LIMIT == 500

\* the page size and the offset when the parameter is absent
DefaultLimit == 50
DefaultOffset == 0

\* a query parameter that was not sent, and one that was sent with a text
Absent == [ given |-> FALSE, text |-> << >> ]
Given(text) == [ given |-> TRUE, text |-> text ]

\* qp.get(name, default)
qp_get(param, default) == IF param.given THEN param.text ELSE default

\* an /api/images request that has not started
IaIdle ==
  [ pc           |-> "idle",
    label_params |-> << >>,    \* qp.getlist("label")
    limit_param  |-> Absent,
    offset_param |-> Absent,
    conf_param   |-> Absent,
    labels       |-> << >>,
    limit        |-> 0,
    offset       |-> 0,
    conf_str     |-> << >>,
    conf_ranges  |-> [ raised |-> FALSE, none |-> TRUE, ranges |-> << >> ],
    status       |-> 0,
    error        |-> "",
    images       |-> << >> ]

Aggregates == << yfcc_label_conf_hist, yfcc_images_maxbin_hist >>

HistInit ==
  [ pre          |-> [ r \in Rebuilders |-> << {}, {} >> ],  \* aggregates when the attempt began
    from_label   |-> [ r \in Rebuilders |-> << >> ],         \* bb_table read by the first INSERT
    from_maxbin  |-> [ r \in Rebuilders |-> << >> ],         \* bb_table read by the second INSERT
    committed    |-> [ r \in Rebuilders |-> FALSE ],         \* the attempt's COMMIT took effect
    dirty        |-> [ r \in Rebuilders |-> FALSE ],         \* bb_table written since the attempt began
    repeat       |-> [ r \in Rebuilders |-> FALSE ],         \* committed, and no bb_table write since
                                                             \* the rebuild committed before it began
    clean        |-> FALSE,                                  \* no bb_table write since the last
                                                             \* committed rebuild began
    at_label     |-> [ q \in Readers |-> << {}, {} >> ],     \* aggregates when the label counts were read
    at_images    |-> [ q \in Readers |-> << {}, {} >> ],    \* aggregates when the image count was read
    requested    |-> [ q \in Readers |-> [ kind |-> "absent", value |-> 0 ] ],
                                                             \* the min_conf parameter of the request
    read_error   |-> [ q \in Readers |-> "none" ],          \* what a read raised: undefined_table, io
    conf_terms   |-> << >>,                                  \* the terms the conf parameter was written from
    next_page    |-> FALSE,                                  \* the request asks for the page after the last one
    prev_images  |-> << >>,                                  \* the images of the last page
    runs         |-> 1 ]                                     \* times the pipeline script was started

\* the stores the pipeline can have left after its loop over the images 1..n:
\* each image either raised (nothing written) or was indexed with its boxes
RECURSIVE PipelineRuns(_)
PipelineRuns(n) ==
  IF n = 0 THEN { [ bb_table |-> << >>, yfcc_index |-> {} ] }
  ELSE PipelineRuns(n - 1) \cup
       { [ bb_table   |-> s.bb_table \o bbox_rows(n, bboxes),
           yfcc_index |-> s.yfcc_index \cup { n } ] :
           s \in PipelineRuns(n - 1), bboxes \in BoxSeqs(MaxBoxes) }

\* nothing has run yet: the database is empty
Init ==
  /\ bb_table = << >>
  /\ yfcc_index = {}
  /\ yfcc_index_ts = [ img \in {} |-> 0 ]
  /\ last_image_id = 0
  /\ hist_exists = FALSE
  /\ yfcc_label_conf_hist = {}
  /\ yfcc_images_maxbin_hist = {}
  /\ clock = 1
  /\ rb = [ r \in Rebuilders |-> RbIdle ]
  /\ rd = [ q \in Readers |-> RdIdle ]
  /\ ia = IaIdle
  /\ hist = HistInit

\* the pipeline has finished its loop; no rebuild and no read has run yet
InitLoaded ==
  /\ \E s \in PipelineRuns(NumImages) :
       /\ bb_table = s.bb_table
       /\ yfcc_index = s.yfcc_index
       /\ yfcc_index_ts = [ img \in s.yfcc_index |-> img ]
  /\ last_image_id = NumImages
  /\ hist_exists = FALSE
  /\ yfcc_label_conf_hist = {}
  /\ yfcc_images_maxbin_hist = {}
  /\ clock = 1
  /\ rb = [ r \in Rebuilders |-> RbIdle ]
  /\ rd = [ q \in Readers |-> RdIdle ]
  /\ ia = IaIdle
  /\ hist = HistInit

\* the pipeline has finished its loop and no request is running; either no
\* rebuild has ever run, or one rebuild has committed at time 1 and is over
InitBuilt ==
  /\ \E s \in PipelineRuns(NumImages), built \in BOOLEAN :
       /\ bb_table = s.bb_table
       /\ yfcc_index = s.yfcc_index
       /\ yfcc_index_ts = [ img \in s.yfcc_index |-> img ]
       /\ hist_exists = built
       /\ yfcc_label_conf_hist = IF built THEN label_hist_select(s.bb_table, 1) ELSE {}
       /\ yfcc_images_maxbin_hist = IF built THEN maxbin_hist_select(s.bb_table, 1) ELSE {}
       /\ hist = [ HistInit EXCEPT !.clean = built ]
  /\ last_image_id = NumImages
  /\ clock = 1
  /\ rb = [ r \in Rebuilders |-> RbIdle ]
  /\ rd = [ q \in Readers |-> RdIdle ]
  /\ ia = IaIdle

dbVars == << hist_exists, yfcc_label_conf_hist, yfcc_images_maxbin_hist >>
pipeVars == << bb_table, yfcc_index, yfcc_index_ts, last_image_id >>

(* ------------------------- detection pipeline -------------------------- *)
\* ts of an upserted index row (DEFAULT now() on insert, ts=now() on conflict):
\* the time of the chunk's transaction, which is later than that of every
\* transaction before it.  The first run indexes image n at time n.
upsert_ts(image_file_id) ==
  LET times == { yfcc_index_ts[img] : img \in yfcc_index }
  IN  IF times = {} THEN image_file_id
      ELSE Max(image_file_id, 1 + CHOOSE t \in times : \A u \in times : u <= t)

\* the same with an incremental update of the label histogram by the pipeline
\* (the boxes of the chunk are added to the committed rows)
PipelineChunk_incremental ==
  /\ last_image_id < NumImages
  /\ \E bboxes \in BoxSeqs(MaxBoxes) :
       LET image_file_id == last_image_id + 1 IN
       /\ yfcc_index' = yfcc_index \cup { image_file_id }
       /\ yfcc_index_ts' = [ img \in yfcc_index' |->
                               IF img = image_file_id THEN upsert_ts(image_file_id)
                               ELSE yfcc_index_ts[img] ]
       /\ bb_table' = bb_table \o bbox_rows(image_file_id, bboxes)
       /\ last_image_id' = image_file_id
       /\ yfcc_label_conf_hist' =
            IF hist_exists THEN label_hist_select(bb_table', clock) ELSE yfcc_label_conf_hist
       /\ hist' = IF bboxes = << >> THEN hist
                  ELSE [ hist EXCEPT !.dirty = [ r \in DOMAIN rb |-> rb[r].pc # "idle" ],
                                     !.clean = FALSE ]
  /\ UNCHANGED << ia, hist_exists, yfcc_images_maxbin_hist, clock, rb, rd >>

\* One pass of the main loop with a chunk of one image: the detector ran, the
\* image is upserted into yfcc_index, its boxes are bulk-inserted, commit.
PipelineChunk ==
  /\ last_image_id < NumImages
  /\ \E bboxes \in BoxSeqs(MaxBoxes) :
       LET image_file_id == last_image_id + 1 IN
       /\ yfcc_index' = yfcc_index \cup { image_file_id }
       /\ yfcc_index_ts' = [ img \in yfcc_index' |->
                               IF img = image_file_id THEN upsert_ts(image_file_id)
                               ELSE yfcc_index_ts[img] ]
       /\ bb_table' = bb_table \o bbox_rows(image_file_id, bboxes)
       /\ last_image_id' = image_file_id
       /\ hist' = IF bboxes = << >> THEN hist
                  ELSE [ hist EXCEPT !.dirty = [ r \in DOMAIN rb |-> rb[r].pc # "idle" ],
                                     !.clean = FALSE ]
  /\ UNCHANGED << ia, dbVars, clock, rb, rd >>

\* The download or the detector raised for the image: the except branch prints
\* and the loop goes on; nothing is written for the image.
PipelineImageError ==
  /\ last_image_id < NumImages
  /\ last_image_id' = last_image_id + 1
  /\ UNCHANGED << ia, bb_table, yfcc_index, yfcc_index_ts, dbVars, clock, rb, rd, hist >>

\* The script is started again (after a crash, or to go on with the dataset):
\* its loop starts from the last_image_id written in the script, whatever
\* the tables hold.
PipelineRestart ==
  /\ hist.runs < MaxRuns
  /\ last_image_id' = 0
  /\ hist' = [ hist EXCEPT !.runs = @ + 1 ]
  /\ UNCHANGED << ia, bb_table, yfcc_index, yfcc_index_ts, dbVars, clock, rb, rd >>

(* --------------------- POST /recalc: rebuild_histograms ---------------- *)
\* PostgreSQL table locks: TRUNCATE takes ACCESS EXCLUSIVE on the table and
\* keeps it to the end of the transaction; a SELECT takes ACCESS SHARE and
\* keeps it to the end of its transaction (conn.close()).  The two conflict.
ExclusiveHeld(table) == \E r \in DOMAIN rb : table \in rb[r].locks
ExclusiveHeldByOther(table, r) == \E o \in DOMAIN rb \ {r} : table \in rb[o].locks
ShareHeld(table) == \E q \in Readers : table \in rd[q].share

\* rebuild_histograms has returned (raised = FALSE) or raised, its connection
\* is closed, and recalc_freqs has answered
Responded(rec, raised, failed_at) ==
  [ rec EXCEPT !.pc = "responded",
               !.locks = {},
               !.tx_label = {},
               !.tx_maxbin = {},
               !.raised = raised,
               !.failed_at = failed_at,
               !.response = recalc_freqs_response(raised) ]

TrySteps ==
  { "begin", "truncate_label", "truncate_maxbin", "insert_label", "insert_maxbin", "commit" }

\* recalc_freqs calls rebuild_histograms; conn = open_conn() succeeds
Recalc(r) ==
  /\ rb[r].pc = "idle"
  /\ rb' = [ rb EXCEPT ![r] = [ RbIdle EXCEPT !.pc = "ensure" ] ]
  /\ hist' = [ hist EXCEPT !.pre[r] = Aggregates, !.dirty[r] = FALSE ]
  /\ UNCHANGED << ia, pipeVars, dbVars, clock, rd >>

\* open_conn() raises: the exception leaves rebuild_histograms
OpenConnFails(r) ==
  /\ rb[r].pc = "idle"
  /\ rb' = [ rb EXCEPT ![r] = Responded(RbIdle, TRUE, "open_conn") ]
  /\ hist' = [ hist EXCEPT !.pre[r] = Aggregates, !.dirty[r] = FALSE ]
  /\ UNCHANGED << ia, pipeVars, dbVars, clock, rd >>

\* ensure_hist_tables: CREATE TABLE IF NOT EXISTS (both), conn.commit()
EnsureHistTables(r) ==
  /\ rb[r].pc = "ensure"
  /\ hist_exists' = TRUE
  /\ rb' = [ rb EXCEPT ![r].pc = "begin" ]
  /\ UNCHANGED << ia, pipeVars, yfcc_label_conf_hist, yfcc_images_maxbin_hist, clock, rd, hist >>

\* ensure_hist_tables raises (outside the try): nothing is created
EnsureFails(r) ==
  /\ rb[r].pc = "ensure"
  /\ rb' = [ rb EXCEPT ![r] = Responded(rb[r], TRUE, "ensure") ]
  /\ UNCHANGED << ia, pipeVars, dbVars, clock, rd, hist >>

\* now = int(time.time()); cur.execute("BEGIN;").  The wall clock is read
\* here only: it shows the time of the last reading or a later one.
Begin(r) ==
  /\ rb[r].pc = "begin"
  /\ \E t \in clock .. MaxTime :
       /\ clock' = t
       /\ rb' = [ rb EXCEPT ![r].pc = "truncate_label", ![r].now = t ]
  /\ UNCHANGED << ia, pipeVars, dbVars, rd, hist >>

\* TRUNCATE yfcc_label_conf_hist; waits while a read holds the table
TruncateLabel(r) ==
  /\ rb[r].pc = "truncate_label"
  /\ ~ ShareHeld("label") /\ ~ ExclusiveHeldByOther("label", r)
  /\ rb' = [ rb EXCEPT ![r].pc = "truncate_maxbin",
                       ![r].tx_label = truncate(yfcc_label_conf_hist),
                       ![r].locks = @ \cup { "label" } ]
  /\ UNCHANGED << ia, pipeVars, dbVars, clock, rd, hist >>

\* TRUNCATE yfcc_images_maxbin_hist
TruncateMaxbin(r) ==
  /\ rb[r].pc = "truncate_maxbin"
  /\ ~ ShareHeld("maxbin") /\ ~ ExclusiveHeldByOther("maxbin", r)
  /\ rb' = [ rb EXCEPT ![r].pc = "insert_label",
                       ![r].tx_maxbin = truncate(yfcc_images_maxbin_hist),
                       ![r].locks = @ \cup { "maxbin" } ]
  /\ UNCHANGED << ia, pipeVars, dbVars, clock, rd, hist >>

\* the same as an upsert that adds to the rows left by the previous rebuild
\* (ON CONFLICT DO UPDATE SET box_count = box_count + EXCLUDED.box_count on an
\* untruncated table)
InsertLabel_accumulate(r) ==
  /\ rb[r].pc = "insert_label"
  /\ LET rows == label_hist_select(bb_table, rb[r].now)
         old  == yfcc_label_conf_hist
         prev(row) == SumBoxCount({ o \in old : o.label = row.label /\ o.conf_bin = row.conf_bin })
     IN  rb' = [ rb EXCEPT ![r].pc = "insert_maxbin",
                           ![r].tx_label =
                              { o \in old : ~ label_hist_conflict({ o }, rows) } \cup
                              { [ row EXCEPT !.box_count = @ + prev(row) ] : row \in rows } ]
  /\ hist' = [ hist EXCEPT !.from_label[r] = bb_table ]
  /\ UNCHANGED << ia, pipeVars, dbVars, clock, rd >>

\* INSERT INTO yfcc_label_conf_hist SELECT ... ; the statement reads the
\* bb_table committed when it starts.  A primary-key conflict raises.
InsertLabel(r) ==
  /\ rb[r].pc = "insert_label"
  /\ LET rows == label_hist_select(bb_table, rb[r].now) IN
       IF label_hist_conflict(rb[r].tx_label, rows)
       THEN rb' = [ rb EXCEPT ![r].pc = "except", ![r].failed_at = "try" ]
       ELSE rb' = [ rb EXCEPT ![r].pc = "insert_maxbin", ![r].tx_label = @ \cup rows ]
  /\ hist' = [ hist EXCEPT !.from_label[r] = bb_table ]
  /\ UNCHANGED << ia, pipeVars, dbVars, clock, rd >>

\* WITH maxbin AS (...) INSERT INTO yfcc_images_maxbin_hist SELECT ...
InsertMaxbin(r) ==
  /\ rb[r].pc = "insert_maxbin"
  /\ LET rows == maxbin_hist_select(bb_table, rb[r].now) IN
       IF maxbin_hist_conflict(rb[r].tx_maxbin, rows)
       THEN rb' = [ rb EXCEPT ![r].pc = "except", ![r].failed_at = "try" ]
       ELSE rb' = [ rb EXCEPT ![r].pc = "commit", ![r].tx_maxbin = @ \cup rows ]
  /\ hist' = [ hist EXCEPT !.from_maxbin[r] = bb_table ]
  /\ UNCHANGED << ia, pipeVars, dbVars, clock, rd >>

\* the effect of COMMIT in the database, and what the history records of it
CommitEffect(r) ==
  /\ yfcc_label_conf_hist' = rb[r].tx_label
  /\ yfcc_images_maxbin_hist' = rb[r].tx_maxbin
  /\ hist' = [ hist EXCEPT
        !.committed[r] = TRUE,
        !.repeat[r] = hist.clean,
        !.clean = ~ hist.dirty[r] ]
  /\ UNCHANGED << ia, pipeVars, hist_exists, clock, rd >>

\* cur.execute("COMMIT;") returns; finally closes; rebuild_histograms returns
\* and recalc_freqs answers
Commit(r) ==
  /\ rb[r].pc = "commit"
  /\ rb' = [ rb EXCEPT ![r] = Responded(rb[r], FALSE, "none") ]
  /\ CommitEffect(r)

\* COMMIT took effect in the server but the reply was lost: execute raises
CommitReplyLost(r) ==
  /\ rb[r].pc = "commit"
  /\ rb' = [ rb EXCEPT ![r].pc = "except", ![r].locks = {}, ![r].failed_at = "commit" ]
  /\ CommitEffect(r)

\* a statement of the try block raises (I/O error) before taking effect
StepFails(r) ==
  /\ rb[r].pc \in TrySteps
  /\ rb' = [ rb EXCEPT ![r].pc = "except", ![r].failed_at = "try" ]
  /\ UNCHANGED << ia, pipeVars, dbVars, clock, rd, hist >>

\* except: ROLLBACK; conn.close(); log; raise -- finally: cur.close(); conn.close().
\* When ROLLBACK itself raises, that exception leaves the function and the
\* closed connection ends the open transaction in the server.  Either way
\* the exception reaches recalc_freqs, which answers.
Except(r) ==
  /\ rb[r].pc = "except"
  /\ \E rollback_ok \in BOOLEAN :
       rb' = [ rb EXCEPT ![r] =
                 Responded(rb[r], TRUE, IF rollback_ok THEN rb[r].failed_at ELSE "rollback") ]
  /\ yfcc_label_conf_hist' =
       IF "label" \in rb[r].locks
       THEN rollback(yfcc_label_conf_hist, rb[r].tx_label) ELSE yfcc_label_conf_hist
  /\ yfcc_images_maxbin_hist' =
       IF "maxbin" \in rb[r].locks
       THEN rollback(yfcc_images_maxbin_hist, rb[r].tx_maxbin) ELSE yfcc_images_maxbin_hist
  /\ UNCHANGED << ia, pipeVars, hist_exists, clock, rd, hist >>

\* the request is over; its locals are gone
RecalcDone(r) ==
  /\ rb[r].pc = "responded"
  /\ rb' = [ rb EXCEPT ![r] = RbIdle ]
  /\ hist' = [ hist EXCEPT !.pre[r] = << {}, {} >>,
                           !.from_label[r] = << >>,
                           !.from_maxbin[r] = << >>,
                           !.committed[r] = FALSE,
                           !.repeat[r] = FALSE,
                           !.dirty[r] = FALSE ]
  /\ UNCHANGED << ia, pipeVars, dbVars, clock, rd >>

(* ------------------------------ GET /freqs ----------------------------- *)
\* min_conf = float(qp.get("min_conf", "0.4")); except ValueError: min_conf = 0.4
min_conf_param(p) == IF p.kind = "float" THEN p.value ELSE DefaultMinConf

\* freqs_api: min_conf = max(0.0, min(1.0, round(min_conf, 2)))
Freqs(q) ==
  /\ rd[q].pc = "idle"
  /\ \E p \in MinConfParams :
       /\ rd' = [ rd EXCEPT ![q] = [ RdIdle EXCEPT !.pc = "label_select",
                                                   !.min_conf = clamp01(round2(min_conf_param(p))) ] ]
       /\ hist' = [ hist EXCEPT !.requested[q] = p ]
  /\ UNCHANGED << ia, pipeVars, dbVars, clock, rb >>

\* read_label_counts_at_threshold, first SELECT; waits while a rebuild holds
\* the table
LabelSelect(q) ==
  /\ rd[q].pc = "label_select"
  /\ hist_exists
  /\ ~ ExclusiveHeld("label")
  /\ rd' = [ rd EXCEPT ![q].pc = "updated_at_select",
                       ![q].share = { "label" },
                       ![q].label_rows =
                          label_rows_select(yfcc_label_conf_hist, conf_to_bin(rd[q].min_conf)) ]
  /\ hist' = [ hist EXCEPT !.at_label[q] = Aggregates ]
  /\ UNCHANGED << ia, pipeVars, dbVars, clock, rb >>

\* the table does not exist: execute raises, finally closes, the exception
\* leaves freqs_api and the server answers 500
LabelSelectUndefinedTable(q) ==
  /\ rd[q].pc = "label_select"
  /\ ~ hist_exists
  /\ rd' = [ rd EXCEPT ![q].pc = "responded", ![q].status = 500 ]
  /\ hist' = [ hist EXCEPT !.read_error[q] = "undefined_table" ]
  /\ UNCHANGED << ia, pipeVars, dbVars, clock, rb >>

\* open_conn or a statement of one of the three read functions raises (store
\* I/O error): try/finally closes without an except, the exception leaves
\* freqs_api and the server answers 500
ReadFails(q) ==
  /\ rd[q].pc \in { "label_select", "updated_at_select", "images_select", "respond" }
  /\ rd' = [ rd EXCEPT ![q].pc = "responded",
                       ![q].share = {},
                       ![q].label_rows = {},
                       ![q].status = 500 ]
  /\ hist' = [ hist EXCEPT !.read_error[q] = "io" ]
  /\ UNCHANGED << ia, pipeVars, dbVars, clock, rb >>

\* read_label_counts_at_threshold, second SELECT, finally (close) and the
\* counts dictionary
UpdatedAtSelect(q) ==
  /\ rd[q].pc = "updated_at_select"
  /\ LET counts == counts_of(rd[q].label_rows) IN
     rd' = [ rd EXCEPT ![q].pc = "images_select",
                       ![q].share = {},
                       ![q].label_rows = {},
                       ![q].updated_at = updated_at_select(yfcc_label_conf_hist),
                       ![q].counts = counts,
                       ![q].total_boxes = SumCounts(counts, DOMAIN counts) ]
  /\ UNCHANGED << ia, pipeVars, dbVars, clock, rb, hist >>

\* read_images_with_boxes_at_threshold: one SELECT on a new connection
ImagesSelect(q) ==
  /\ rd[q].pc = "images_select"
  /\ ~ ExclusiveHeld("maxbin")
  /\ rd' = [ rd EXCEPT ![q].pc = "respond",
                       ![q].images =
                          images_select(yfcc_images_maxbin_hist, conf_to_bin(rd[q].min_conf)) ]
  /\ hist' = [ hist EXCEPT !.at_images[q] = Aggregates ]
  /\ UNCHANGED << ia, pipeVars, dbVars, clock, rb >>

\* read_total_images_yfcc and the JSON response
FreqsRespond(q) ==
  /\ rd[q].pc = "respond"
  /\ rd' = [ rd EXCEPT ![q].pc = "responded",
                       ![q].total_images = Cardinality(yfcc_index),
                       ![q].labels_payload = labels_payload(rd[q].counts, rd[q].total_boxes),
                       ![q].status = 200 ]
  /\ UNCHANGED << ia, pipeVars, dbVars, clock, rb, hist >>

\* the request is over; its locals are gone
FreqsDone(q) ==
  /\ rd[q].pc = "responded"
  /\ rd' = [ rd EXCEPT ![q] = RdIdle ]
  /\ hist' = [ hist EXCEPT !.at_label[q] = << {}, {} >>,
                           !.at_images[q] = << {}, {} >>,
                           !.requested[q] = HistInit.requested[q],
                           !.read_error[q] = "none" ]
  /\ UNCHANGED << ia, pipeVars, dbVars, clock, rb >>

(* ---------------------------- GET /api/images -------------------------- *)
\* labels = [l.strip() for l in qp.getlist("label") if l.strip()]
strip_labels(label_params) == SelectSeq(label_params, LAMBDA l : l # "")

\* the same without limit = max(1, min(MAX_LIMIT, limit))
images_api_any_limit(label_params, limit_param, offset_param, conf_param) ==
  LET limit  == py_int(qp_get(limit_param, << "5", "0" >>))
      offset == py_int(qp_get(offset_param, << "0" >>))
      req    == [ IaIdle EXCEPT !.label_params = label_params,
                                !.limit_param = limit_param,
                                !.offset_param = offset_param,
                                !.conf_param = conf_param,
                                !.labels = strip_labels(label_params) ]
  IN  IF ~ limit.ok
      THEN [ req EXCEPT !.pc = "responded", !.status = 400,
                        !.error = "limit must be an int" ]
      ELSE IF ~ offset.ok
      THEN [ req EXCEPT !.pc = "responded", !.status = 400,
                        !.error = "offset must be an int" ]
      ELSE [ req EXCEPT !.pc = "parse",
                        !.limit = limit.value,
                        !.offset = Max(0, offset.value),
                        !.conf_str = strip(qp_get(conf_param, << >>)) ]

\* images_api up to the call of parse_conf_ranges_0_100: the labels, limit and
\* offset (400 when int() raises), the clamps, conf_str
images_api(label_params, limit_param, offset_param, conf_param) ==
  LET limit  == py_int(qp_get(limit_param, << "5", "0" >>))
      offset == py_int(qp_get(offset_param, << "0" >>))
      req    == [ IaIdle EXCEPT !.label_params = label_params,
                                !.limit_param = limit_param,
                                !.offset_param = offset_param,
                                !.conf_param = conf_param,
                                !.labels = strip_labels(label_params) ]
  IN  IF ~ limit.ok
      THEN [ req EXCEPT !.pc = "responded", !.status = 400,
                        !.error = "limit must be an int" ]
      ELSE IF ~ offset.ok
      THEN [ req EXCEPT !.pc = "responded", !.status = 400,
                        !.error = "offset must be an int" ]
      ELSE [ req EXCEPT !.pc = "parse",
                        !.limit = Max(1, Min(MAX_LIMIT, limit.value)),
                        !.offset = Max(0, offset.value),
                        !.conf_str = strip(qp_get(conf_param, << >>)) ]

\* a GET /api/images request arrives
ImagesRequest ==
  /\ ia.pc = "idle"
  /\ \E label_params \in LabelParams, limit_param \in LimitParams,
        offset_param \in OffsetParams, terms \in RequestTermLists :
       /\ ia' = images_api(label_params, limit_param, offset_param,
                           IF terms = << >> THEN Absent ELSE Given(Join(terms)))
       /\ hist' = [ hist EXCEPT !.conf_terms = terms ]
  /\ UNCHANGED << pipeVars, dbVars, clock, rb, rd >>

\* The client that has received a page asks for the next one: a request with
\* the same labels, conf and limit and with the offset moved on by limit.
ImagesNextPage ==
  /\ ia.pc = "responded" /\ ia.status = 200
  /\ \E limit_param \in LimitParams, offset_param \in OffsetParams :
       LET req == images_api(ia.label_params, limit_param, offset_param, ia.conf_param)
       IN  /\ req.pc = "parse"
           /\ req.limit = ia.limit
           /\ req.offset = ia.offset + ia.limit
           /\ ia' = req
  /\ hist' = [ hist EXCEPT !.next_page = TRUE, !.prev_images = ia.images ]
  /\ UNCHANGED << pipeVars, dbVars, clock, rb, rd >>

\* conf_ranges = parse_conf_ranges_0_100(conf_str).  A ValueError is not
\* caught by images_api: the server answers 500.
ParseConfRanges ==
  /\ ia.pc = "parse"
  /\ LET conf_ranges == parse_conf_ranges_0_100(ia.conf_str) IN
       ia' = IF conf_ranges.raised
             THEN [ ia EXCEPT !.pc = "responded", !.conf_ranges = conf_ranges,
                              !.status = 500, !.error = "Internal Server Error" ]
             ELSE [ ia EXCEPT !.pc = "fetch", !.conf_ranges = conf_ranges ]
  /\ UNCHANGED << pipeVars, dbVars, clock, rb, rd, hist >>

\* images = fetch_images_for_labels(labels, limit, offset, conf_ranges) and
\* the JSON response
FetchImages ==
  /\ ia.pc = "fetch"
  /\ \E images \in fetch_images_for_labels(bb_table, yfcc_index, ia.labels,
                                             ia.limit, ia.offset, ia.conf_ranges) :
       ia' = [ ia EXCEPT !.pc = "responded", !.status = 200, !.images = images ]
  /\ UNCHANGED << pipeVars, dbVars, clock, rb, rd, hist >>

\* open_conn or the query raises (store I/O error): fetch_images_for_labels
\* has no try, the exception leaves images_api and the server answers 500
FetchFails ==
  /\ ia.pc = "fetch"
  /\ ia' = [ ia EXCEPT !.pc = "responded", !.status = 500, !.error = "Internal Server Error" ]
  /\ UNCHANGED << pipeVars, dbVars, clock, rb, rd, hist >>

\* the request is over; its locals are gone
ImagesDone ==
  /\ ia.pc = "responded"
  /\ ia' = IaIdle
  /\ hist' = [ hist EXCEPT !.conf_terms = << >>, !.next_page = FALSE, !.prev_images = << >> ]
  /\ UNCHANGED << pipeVars, dbVars, clock, rb, rd >>

(* --------------------------- specification ----------------------------- *)
Next ==
  \/ PipelineChunk
  \/ PipelineImageError
  \/ \E r \in Rebuilders : Recalc(r)
  \/ \E r \in Rebuilders : OpenConnFails(r)
  \/ \E r \in Rebuilders : EnsureHistTables(r)
  \/ \E r \in Rebuilders : EnsureFails(r)
  \/ \E r \in Rebuilders : Begin(r)
  \/ \E r \in Rebuilders : TruncateLabel(r)
  \/ \E r \in Rebuilders : TruncateMaxbin(r)
  \/ \E r \in Rebuilders : InsertLabel(r)
  \/ \E r \in Rebuilders : InsertMaxbin(r)
  \/ \E r \in Rebuilders : Commit(r)
  \/ \E r \in Rebuilders : CommitReplyLost(r)
  \/ \E r \in Rebuilders : StepFails(r)
  \/ \E r \in Rebuilders : Except(r)
  \/ \E r \in Rebuilders : RecalcDone(r)
  \/ \E q \in Readers : Freqs(q)
  \/ \E q \in Readers : LabelSelect(q)
  \/ \E q \in Readers : LabelSelectUndefinedTable(q)
  \/ \E q \in Readers : ReadFails(q)
  \/ \E q \in Readers : UpdatedAtSelect(q)
  \/ \E q \in Readers : ImagesSelect(q)
  \/ \E q \in Readers : FreqsRespond(q)
  \/ \E q \in Readers : FreqsDone(q)
  \/ ImagesRequest
  \/ ParseConfRanges
  \/ FetchImages
  \/ FetchFails
  \/ ImagesDone
  \/ ImagesNextPage
  \/ PipelineRestart

Spec == Init /\ [][Next]_vars

\* The writers alone: the pipeline and the rebuild.  A read never writes; it
\* can only delay a TRUNCATE, so every sequence of database states of Spec
\* is one of SpecRebuild.
NextRebuild ==
  \/ PipelineChunk
  \/ PipelineImageError
  \/ \E r \in Rebuilders : Recalc(r)
  \/ \E r \in Rebuilders : OpenConnFails(r)
  \/ \E r \in Rebuilders : EnsureHistTables(r)
  \/ \E r \in Rebuilders : EnsureFails(r)
  \/ \E r \in Rebuilders : Begin(r)
  \/ \E r \in Rebuilders : TruncateLabel(r)
  \/ \E r \in Rebuilders : TruncateMaxbin(r)
  \/ \E r \in Rebuilders : InsertLabel(r)
  \/ \E r \in Rebuilders : InsertMaxbin(r)
  \/ \E r \in Rebuilders : Commit(r)
  \/ \E r \in Rebuilders : CommitReplyLost(r)
  \/ \E r \in Rebuilders : StepFails(r)
  \/ \E r \in Rebuilders : Except(r)
  \/ \E r \in Rebuilders : RecalcDone(r)

SpecRebuild == Init /\ [][NextRebuild]_vars

\* The pipeline alone, started up to MaxRuns times.
NextPipeline ==
  \/ PipelineChunk
  \/ PipelineImageError
  \/ PipelineRestart

SpecPipeline == Init /\ [][NextPipeline]_vars

\* Rebuilds and reads over a store the pipeline has left behind.
NextFreqs ==
  \/ \E r \in Rebuilders : Recalc(r)
  \/ \E r \in Rebuilders : OpenConnFails(r)
  \/ \E r \in Rebuilders : EnsureHistTables(r)
  \/ \E r \in Rebuilders : EnsureFails(r)
  \/ \E r \in Rebuilders : Begin(r)
  \/ \E r \in Rebuilders : TruncateLabel(r)
  \/ \E r \in Rebuilders : TruncateMaxbin(r)
  \/ \E r \in Rebuilders : InsertLabel(r)
  \/ \E r \in Rebuilders : InsertMaxbin(r)
  \/ \E r \in Rebuilders : Commit(r)
  \/ \E r \in Rebuilders : CommitReplyLost(r)
  \/ \E r \in Rebuilders : StepFails(r)
  \/ \E r \in Rebuilders : Except(r)
  \/ \E r \in Rebuilders : RecalcDone(r)
  \/ \E q \in Readers : Freqs(q)
  \/ \E q \in Readers : LabelSelect(q)
  \/ \E q \in Readers : LabelSelectUndefinedTable(q)
  \/ \E q \in Readers : ReadFails(q)
  \/ \E q \in Readers : UpdatedAtSelect(q)
  \/ \E q \in Readers : ImagesSelect(q)
  \/ \E q \in Readers : FreqsRespond(q)
  \/ \E q \in Readers : FreqsDone(q)

SpecFreqs == InitLoaded /\ [][NextFreqs]_vars

\* Reads alone, over the aggregate tables a rebuild has left behind: the read
\* operations are functions of the aggregate state.
NextRead ==
  \/ \E q \in Readers : Freqs(q)
  \/ \E q \in Readers : LabelSelect(q)
  \/ \E q \in Readers : LabelSelectUndefinedTable(q)
  \/ \E q \in Readers : ReadFails(q)
  \/ \E q \in Readers : UpdatedAtSelect(q)
  \/ \E q \in Readers : ImagesSelect(q)
  \/ \E q \in Readers : FreqsRespond(q)
  \/ \E q \in Readers : FreqsDone(q)

SpecRead == InitBuilt /\ [][NextRead]_vars

\* /api/images requests over a store the pipeline has left behind.
NextImages ==
  \/ ImagesRequest
  \/ ParseConfRanges
  \/ FetchImages
  \/ FetchFails
  \/ ImagesDone

SpecImages == InitLoaded /\ [][NextImages]_vars

\* images_api has reached the call of parse_conf_ranges_0_100 with a conf
\* parameter written from at most MaxTerms terms (limit and offset absent, no
\* label); the database is empty
InitParse ==
  /\ bb_table = << >>
  /\ yfcc_index = {}
  /\ yfcc_index_ts = [ img \in {} |-> 0 ]
  /\ last_image_id = 0
  /\ hist_exists = FALSE
  /\ yfcc_label_conf_hist = {}
  /\ yfcc_images_maxbin_hist = {}
  /\ clock = 1
  /\ rb = [ r \in Rebuilders |-> RbIdle ]
  /\ rd = [ q \in Readers |-> RdIdle ]
  /\ \E terms \in TermLists(MaxTerms) :
       /\ ia = [ IaIdle EXCEPT !.pc = "parse",
                               !.conf_param = IF terms = << >> THEN Absent ELSE Given(Join(terms)),
                               !.limit = DefaultLimit,
                               !.offset = DefaultOffset,
                               !.conf_str = strip(Join(terms)) ]
       /\ hist = [ HistInit EXCEPT !.conf_terms = terms ]

\* The range parser alone, applied to every conf parameter of InitParse.
NextParse == ParseConfRanges

SpecParse == InitParse /\ [][NextParse]_vars

\* the pipeline has finished its loop, each transaction having indexed
\* ChunkSize images: the rows of one chunk carry the same ts, the now() of
\* their transaction
InitChunked ==
  /\ \E s \in PipelineRuns(NumImages) :
       /\ bb_table = s.bb_table
       /\ yfcc_index = s.yfcc_index
       /\ yfcc_index_ts = [ img \in s.yfcc_index |-> (img - 1) \div ChunkSize + 1 ]
  /\ last_image_id = NumImages
  /\ hist_exists = FALSE
  /\ yfcc_label_conf_hist = {}
  /\ yfcc_images_maxbin_hist = {}
  /\ clock = 1
  /\ rb = [ r \in Rebuilders |-> RbIdle ]
  /\ rd = [ q \in Readers |-> RdIdle ]
  /\ ia = IaIdle
  /\ hist = HistInit

\* /api/images requests, page after page, over a store indexed in chunks.
NextPages ==
  \/ ImagesRequest
  \/ ParseConfRanges
  \/ FetchImages
  \/ FetchFails
  \/ ImagesDone
  \/ ImagesNextPage

SpecPages == InitChunked /\ [][NextPages]_vars

\* Scores at the two ends of the range of bb_table.confidence_score: 1.0, which
\* the detector returns for a saturated score (float(scores[i]) is stored as it
\* is), and 0.0, which the column admits and the detector returns only when it
\* is called with conf = 0 instead of its default 0.4.
EdgeDetections == { <<"cat", 0>>, <<"cat", Scale>> }

\* the detector's output for one image when the scores are at the ends
RECURSIVE EdgeBoxSeqs(_)
EdgeBoxSeqs(n) ==
  IF n = 0 THEN { <<>> }
  ELSE EdgeBoxSeqs(n - 1) \cup
       { Append(s, d) : s \in { t \in EdgeBoxSeqs(n - 1) : Len(t) = n - 1 }, d \in EdgeDetections }

\* the stores the pipeline can have left after its loop over the images 1..n
\* when the scores are at the ends
RECURSIVE EdgeRuns(_)
EdgeRuns(n) ==
  IF n = 0 THEN { [ bb_table |-> << >>, yfcc_index |-> {} ] }
  ELSE EdgeRuns(n - 1) \cup
       { [ bb_table   |-> s.bb_table \o bbox_rows(n, bboxes),
           yfcc_index |-> s.yfcc_index \cup { n } ] :
           s \in EdgeRuns(n - 1), bboxes \in EdgeBoxSeqs(MaxBoxes) }

\* the pipeline has finished its loop over images whose scores are at the
\* ends; no rebuild and no read has run yet
InitEdge ==
  /\ \E s \in EdgeRuns(NumImages) :
       /\ bb_table = s.bb_table
       /\ yfcc_index = s.yfcc_index
       /\ yfcc_index_ts = [ img \in s.yfcc_index |-> img ]
  /\ last_image_id = NumImages
  /\ hist_exists = FALSE
  /\ yfcc_label_conf_hist = {}
  /\ yfcc_images_maxbin_hist = {}
  /\ clock = 1
  /\ rb = [ r \in Rebuilders |-> RbIdle ]
  /\ rd = [ q \in Readers |-> RdIdle ]
  /\ ia = IaIdle
  /\ hist = HistInit

\* /api/images requests over a store whose scores are at the ends.
SpecEdgeImages == InitEdge /\ [][NextImages]_vars

\* POST /recalc requests alone, one after the other.
NextRecalc ==
  \/ \E r \in Rebuilders : Recalc(r)
  \/ \E r \in Rebuilders : OpenConnFails(r)
  \/ \E r \in Rebuilders : EnsureHistTables(r)
  \/ \E r \in Rebuilders : EnsureFails(r)
  \/ \E r \in Rebuilders : Begin(r)
  \/ \E r \in Rebuilders : TruncateLabel(r)
  \/ \E r \in Rebuilders : TruncateMaxbin(r)
  \/ \E r \in Rebuilders : InsertLabel(r)
  \/ \E r \in Rebuilders : InsertMaxbin(r)
  \/ \E r \in Rebuilders : Commit(r)
  \/ \E r \in Rebuilders : CommitReplyLost(r)
  \/ \E r \in Rebuilders : StepFails(r)
  \/ \E r \in Rebuilders : Except(r)
  \/ \E r \in Rebuilders : RecalcDone(r)

\* Rebuilds over a store whose scores are at the ends.
SpecEdgeRebuild == InitEdge /\ [][NextRecalc]_vars

\* the pipeline has finished its loop; two clients are about to send
\* POST /recalc
InitOverlap ==
  /\ \E s \in PipelineRuns(NumImages) :
       /\ bb_table = s.bb_table
       /\ yfcc_index = s.yfcc_index
       /\ yfcc_index_ts = [ img \in s.yfcc_index |-> img ]
  /\ last_image_id = NumImages
  /\ hist_exists = FALSE
  /\ yfcc_label_conf_hist = {}
  /\ yfcc_images_maxbin_hist = {}
  /\ clock = 1
  /\ rb = [ r \in Overlapping |-> RbIdle ]
  /\ rd = [ q \in Readers |-> RdIdle ]
  /\ ia = IaIdle
  /\ hist = [ HistInit EXCEPT !.pre         = [ r \in Overlapping |-> << {}, {} >> ],
                              !.from_label  = [ r \in Overlapping |-> << >> ],
                              !.from_maxbin = [ r \in Overlapping |-> << >> ],
                              !.committed   = [ r \in Overlapping |-> FALSE ],
                              !.dirty       = [ r \in Overlapping |-> FALSE ],
                              !.repeat      = [ r \in Overlapping |-> FALSE ] ]

\* Two POST /recalc requests, each running rebuild_histograms on its own
\* connection (Starlette runs the handlers concurrently).
NextOverlap ==
  \/ \E r \in Overlapping : Recalc(r)
  \/ \E r \in Overlapping : OpenConnFails(r)
  \/ \E r \in Overlapping : EnsureHistTables(r)
  \/ \E r \in Overlapping : EnsureFails(r)
  \/ \E r \in Overlapping : Begin(r)
  \/ \E r \in Overlapping : TruncateLabel(r)
  \/ \E r \in Overlapping : TruncateMaxbin(r)
  \/ \E r \in Overlapping : InsertLabel(r)
  \/ \E r \in Overlapping : InsertMaxbin(r)
  \/ \E r \in Overlapping : Commit(r)
  \/ \E r \in Overlapping : CommitReplyLost(r)
  \/ \E r \in Overlapping : StepFails(r)
  \/ \E r \in Overlapping : Except(r)
  \/ \E r \in Overlapping : RecalcDone(r)

SpecOverlap == InitOverlap /\ [][NextOverlap]_vars

(* ======================================================================== *)
(* Properties                                                               *)
(* ======================================================================== *)

\* what the two INSERT statements of the attempt of r computed
Fresh(r) ==
  << label_hist_select(hist.from_label[r], rb[r].now),
     maxbin_hist_select(hist.from_maxbin[r], rb[r].now) >>

\* C1: a rebuild is all-or-nothing.  From the start of an attempt to its end,
\* whichever step fails, the committed contents of the two aggregate tables
\* are exactly the contents both had before the attempt, or (only once the
\* COMMIT has taken effect) the complete contents computed by the attempt for
\* both tables; never one table replaced and the other not, never a table
\* cleared and not refilled.
C1_AllOrNothing ==
  \A r \in Rebuilders :
    rb[r].pc # "idle" =>
      \/ Aggregates = hist.pre[r]
      \/ hist.committed[r] /\ Aggregates = Fresh(r)

\* an attempt failed after it had truncated both tables and refilled the
\* first one, and the non-empty contents from before are still there
C1_Witness ==
  \E r \in Rebuilders :
    /\ rb[r].pc = "responded" /\ rb[r].raised /\ ~ hist.committed[r]
    /\ hist.from_label[r] # << >>
    /\ hist.pre[r][1] # {} /\ hist.pre[r][2] # {}
    /\ Aggregates = hist.pre[r]

\* C4: a failed rebuild is always reported.  When any step failed (open_conn,
\* ensure_hist_tables, a statement of the try block, COMMIT, ROLLBACK),
\* rebuild_histograms raised and POST /recalc answered 500 "recalc failed";
\* the answer "ok (hist rebuilt)" is given only when the COMMIT took effect.
C4_FailureReported ==
  \A r \in Rebuilders :
    rb[r].pc = "responded" =>
      /\ rb[r].failed_at # "none" =>
           /\ rb[r].raised
           /\ rb[r].response.status = 500
           /\ rb[r].response.text = "recalc failed"
      /\ rb[r].response.text = "ok (hist rebuilt)" =>
           hist.committed[r] /\ rb[r].failed_at = "none"

\* the ROLLBACK itself failed, after the tables had been truncated, and the
\* request was answered with the failure text
C4_Witness ==
  \E r \in Rebuilders :
    /\ rb[r].pc = "responded"
    /\ rb[r].failed_at = "rollback"
    /\ hist.from_label[r] # << >>
    /\ rb[r].response.status = 500

\* labels that occur in the model
AllLabels == LABELS \cup { d[1] : d \in Detections }

\* number of detections with the label in a state of the Detection Store
DetectionCount(bb, lab) == Cardinality({ i \in DOMAIN bb : bb[i].label = lab })

\* C5: completeness of the label histogram.  After a successful rebuild, for
\* every label the sum of box_count over the bins 0..100 equals the number of
\* detections with that label in the Detection Store as the rebuild read it,
\* and read_label_counts_at_threshold(0.0) reports that number for every
\* label of the vocabulary.
C5_LabelHistogramComplete ==
  \A r \in Rebuilders :
    hist.committed[r] =>
      /\ \A lab \in AllLabels :
           SumBoxCount({ row \in yfcc_label_conf_hist : row.label = lab /\ row.conf_bin \in Bins })
             = DetectionCount(hist.from_label[r], lab)
      /\ \A lab \in LABELS :
           read_label_counts_at_threshold(yfcc_label_conf_hist, 0).counts[lab]
             = DetectionCount(hist.from_label[r], lab)

\* a rebuild committed over a store in which one image has two detections of
\* the same vocabulary label, and another label occurs as well
C5_Witness ==
  \E r \in Rebuilders :
    /\ hist.committed[r]
    /\ \E i, j \in DOMAIN hist.from_label[r] :
         /\ i # j
         /\ hist.from_label[r][i].image_file_id = hist.from_label[r][j].image_file_id
         /\ hist.from_label[r][i].label = "cat" /\ hist.from_label[r][j].label = "cat"
    /\ DetectionCount(hist.from_label[r], "unicorn") > 0

\* images with at least one detection in a state of the Detection Store
ImagesWithDetection(bb) == { bb[i].image_file_id : i \in DOMAIN bb }

\* the image has a detection in build-side bin b and none with a higher confidence
HighestInBin(bb, img, b) ==
  \E i \in DOMAIN bb :
    /\ bb[i].image_file_id = img
    /\ Max(0, Min(100, (bb[i].confidence_score + 1) \div BinWidth)) = b
    /\ \A j \in DOMAIN bb :
         bb[j].image_file_id = img => bb[j].confidence_score <= bb[i].confidence_score

\* C6: after a successful rebuild every image with at least one detection is
\* counted in exactly one row of the max-bin histogram, the row of the
\* build-side bin of its highest confidence; images without detections are
\* counted nowhere; the image counts add up to the number of images with at
\* least one detection.
C6_MaxBinHistogram ==
  \A r \in Rebuilders :
    hist.committed[r] =>
      LET bb == hist.from_maxbin[r] IN
      /\ \A b \in Bins :
           SumImageCount({ row \in yfcc_images_maxbin_hist : row.max_bin = b })
             = Cardinality({ img \in ImagesWithDetection(bb) : HighestInBin(bb, img, b) })
      /\ \A row \in yfcc_images_maxbin_hist : row.max_bin \in Bins
      /\ SumImageCount(yfcc_images_maxbin_hist) = Cardinality(ImagesWithDetection(bb))

\* a rebuild committed over a store with an image that has two detections in
\* different bins (the lower one inserted last) and an indexed image without
\* detections
C6_Witness ==
  \E r \in Rebuilders :
    /\ hist.committed[r]
    /\ LET bb == hist.from_maxbin[r] IN
       /\ \E i, j \in DOMAIN bb :
            /\ i < j
            /\ bb[i].image_file_id = bb[j].image_file_id
            /\ bb[i].confidence_score > bb[j].confidence_score
       /\ \E img \in yfcc_index : img \notin ImagesWithDetection(bb)
    /\ yfcc_images_maxbin_hist # {}

\* C7 (as claimed): after a successful rebuild, for every minConfidence T,
\* read_images_with_boxes_at_threshold(T) is the number of images that have
\* at least one detection with confidence >= T (T clamped to [0,1]).
C7_ImageThresholdExact ==
  \A r \in Rebuilders :
    hist.committed[r] =>
      LET bb == hist.from_maxbin[r] IN
      \A T \in Thresholds :
        read_images_with_boxes_at_threshold(yfcc_images_maxbin_hist, T)
          = Cardinality({ img \in ImagesWithDetection(bb) :
                            \E i \in DOMAIN bb : /\ bb[i].image_file_id = img
                                                 /\ bb[i].confidence_score >= clamp01(T) })

\* the (key, count) rows of the two aggregate tables, without updated_at
KeyCounts(aggregates) ==
  << { [ label |-> row.label, conf_bin |-> row.conf_bin, box_count |-> row.box_count ] :
         row \in aggregates[1] },
     { [ max_bin |-> row.max_bin, image_count |-> row.image_count ] :
         row \in aggregates[2] } >>

\* C10: rebuild is idempotent.  When a rebuild commits and the Detection Store
\* has not been written since the rebuild committed before it began, both
\* aggregate tables hold the same (key, count) rows as before it; only
\* updated_at may differ.
C10_RebuildIdempotent ==
  \A r \in Rebuilders :
    hist.committed[r] /\ hist.repeat[r] =>
      KeyCounts(Aggregates) = KeyCounts(hist.pre[r])

\* a second rebuild committed over an unchanged, non-empty store at a later
\* time than the first
C10_Witness ==
  \E r \in Rebuilders :
    /\ hist.committed[r] /\ hist.repeat[r]
    /\ hist.pre[r][1] # {} /\ hist.pre[r][2] # {}
    /\ \A row \in hist.pre[r][1] : row.updated_at < rb[r].now
    /\ \A row \in yfcc_label_conf_hist : row.updated_at = rb[r].now

\* the /freqs request of q has read both aggregate tables
HasRead(q) == rd[q].pc \in { "respond", "responded" } /\ rd[q].status # 500

\* the results of q are all derived from the aggregate state S
DerivedFrom(q, S) ==
  LET res == read_label_counts_at_threshold(S[1], rd[q].min_conf) IN
  /\ rd[q].counts = res.counts
  /\ rd[q].updated_at = res.updated_at
  /\ rd[q].images = read_images_with_boxes_at_threshold(S[2], rd[q].min_conf)

\* C2 (as claimed): a threshold-summary read that interleaves with a rebuild
\* returns label counts, updated_at and images-at-or-above that are all
\* derived from one aggregate state, the one before or the one after the
\* rebuild.
C2_ReadSeesOneState ==
  \A q \in Readers :
    HasRead(q) => DerivedFrom(q, hist.at_label[q]) \/ DerivedFrom(q, hist.at_images[q])

\* a read of q is waiting for the ACCESS EXCLUSIVE lock of an open rebuild
\* transaction to go away
MidRebuild(table) == \E r \in Rebuilders : table \in rb[r].locks /\ rb[r].pc \in TrySteps

\* C3 (as claimed): a rebuild in progress does not block readers.  While a
\* rebuild is between its TRUNCATE and its COMMIT, a read of either aggregate
\* table that has been issued can complete.
C3_ReadersNotBlocked ==
  \A q \in Readers :
    /\ rd[q].pc = "label_select" /\ hist_exists /\ MidRebuild("label") => ENABLED LabelSelect(q)
    /\ rd[q].pc = "images_select" /\ MidRebuild("maxbin") => ENABLED ImagesSelect(q)

\* C8: for every minConfidence T, read_label_counts_at_threshold(T) returns a
\* mapping over exactly the vocabulary; each count is the sum of box_count over
\* the rows of that label with conf_bin >= conf_to_bin(T), 0 without such
\* rows; rows of a label outside the vocabulary are neither reported nor
\* added; totalBoxes is the sum of the reported counts.  The same holds of
\* the counts a /freqs request has read.
C8_LabelCounts ==
  LET Expected(table, T, lab) ==
        SumBoxCount({ row \in table : row.label = lab /\ row.conf_bin >= conf_to_bin(T) })
      Holds(table, T, counts, total) ==
        /\ DOMAIN counts = LABELS
        /\ \A lab \in LABELS : counts[lab] = Expected(table, T, lab)
        /\ total = SumBoxCount({ row \in table : row.label \in LABELS /\ row.conf_bin >= conf_to_bin(T) })
  IN
  /\ \A T \in Thresholds :
       LET res == read_label_counts_at_threshold(yfcc_label_conf_hist, T)
       IN  Holds(yfcc_label_conf_hist, T, res.counts, res.total_boxes)
  /\ \A q \in Readers :
       HasRead(q) => Holds(hist.at_label[q][1], rd[q].min_conf, rd[q].counts, rd[q].total_boxes)

\* a request has read counts at a threshold whose bin holds rows of the
\* vocabulary label, from a histogram that also has rows of a label outside
\* the vocabulary and no rows of the other vocabulary label
C8_Witness ==
  \E q \in Readers :
    /\ HasRead(q)
    /\ rd[q].counts["cat"] > 0 /\ rd[q].counts["dog"] = 0
    /\ rd[q].total_boxes = rd[q].counts["cat"]
    /\ \E row \in hist.at_label[q][1] :
         row.label = "cat" /\ row.conf_bin = conf_to_bin(rd[q].min_conf)
    /\ \E row \in hist.at_label[q][1] :
         row.label \notin LABELS /\ row.conf_bin >= conf_to_bin(rd[q].min_conf)

\* C9: monotonicity in the threshold.  Over any aggregate state, for all
\* thresholds T1 < T2 the image count, every per-label count and totalBoxes
\* at T1 are at least those at T2.
C9_Monotonic ==
  \A T1, T2 \in Thresholds :
    T1 < T2 =>
      LET r1 == read_label_counts_at_threshold(yfcc_label_conf_hist, T1)
          r2 == read_label_counts_at_threshold(yfcc_label_conf_hist, T2)
      IN  /\ read_images_with_boxes_at_threshold(yfcc_images_maxbin_hist, T1)
               >= read_images_with_boxes_at_threshold(yfcc_images_maxbin_hist, T2)
          /\ \A lab \in LABELS : r1.counts[lab] >= r2.counts[lab]
          /\ r1.total_boxes >= r2.total_boxes

\* over one aggregate state the counts differ between three thresholds, and a
\* request has read that state at the middle one
C9_Witness ==
  /\ read_images_with_boxes_at_threshold(yfcc_images_maxbin_hist, 0)
       > read_images_with_boxes_at_threshold(yfcc_images_maxbin_hist, 45600000)
  /\ read_images_with_boxes_at_threshold(yfcc_images_maxbin_hist, 45600000)
       > read_images_with_boxes_at_threshold(yfcc_images_maxbin_hist, 100000000)
  /\ read_label_counts_at_threshold(yfcc_label_conf_hist, 45000000).total_boxes
       > read_label_counts_at_threshold(yfcc_label_conf_hist, 45600000).total_boxes
  /\ \E q \in Readers :
       /\ HasRead(q)
       /\ hist.at_images[q] = Aggregates
       /\ rd[q].images = read_images_with_boxes_at_threshold(yfcc_images_maxbin_hist, 45600000)
       /\ rd[q].images > 0

\* what the two threshold reads return over the committed aggregate tables,
\* for every threshold
ThresholdResults ==
  [ T \in Thresholds |->
      << read_label_counts_at_threshold(yfcc_label_conf_hist, T),
         read_images_with_boxes_at_threshold(yfcc_images_maxbin_hist, T) >> ]

\* C11: threshold queries depend only on the aggregate tables.  A step that
\* writes the Detection Store leaves the results of both threshold reads
\* unchanged for every threshold, and so does every step that is not the
\* COMMIT of a rebuild taking effect.  (The results are compared only when
\* a table has changed: over unchanged tables they are the same.)
C11_OnlyRebuildChanges ==
  [][ LET SameResults == \/ Aggregates' = Aggregates
                         \/ ThresholdResults' = ThresholdResults
      IN  /\ bb_table' # bb_table => SameResults
          /\ \/ \E r \in Rebuilders : rb[r].pc = "commit" /\ hist'.committed[r]
             \/ SameResults
    ]_vars

\* detections were appended after the last committed rebuild and no rebuild
\* is running: the reads still return the counts of that rebuild
C11_Witness ==
  /\ \A r \in Rebuilders : rb[r].pc = "idle"
  /\ read_label_counts_at_threshold(yfcc_label_conf_hist, 0).counts["cat"] > 0
  /\ DetectionCount(bb_table, "cat")
       > read_label_counts_at_threshold(yfcc_label_conf_hist, 0).counts["cat"]
  /\ Cardinality(ImagesWithDetection(bb_table))
       > read_images_with_boxes_at_threshold(yfcc_images_maxbin_hist, 0)

\* C12 (as claimed): both aggregate tables written by one rebuild are computed
\* from one and the same state of the Detection Store, also when the pipeline
\* commits detections while the rebuild runs: the committed pair of tables is
\* the pair of aggregations of one store state.
C12_OneStoreState ==
  \A r \in Rebuilders :
    hist.committed[r] =>
      \E bb \in { hist.from_label[r], hist.from_maxbin[r] } :
        KeyCounts(Aggregates) =
          KeyCounts(<< label_hist_select(bb, rb[r].now), maxbin_hist_select(bb, rb[r].now) >>)

\* the results of a /freqs request are all zero
ZeroResult(q) ==
  /\ \A lab \in LABELS : rd[q].counts[lab] = 0
  /\ rd[q].total_boxes = 0
  /\ rd[q].updated_at = 0
  /\ rd[q].images = 0

\* C13 (as claimed): before any rebuild has ever run the threshold reads do
\* not fail.  A /freqs request answered while the aggregate tables have never
\* been created (and without a store I/O error) is answered 200 with all-zero
\* counts, totalBoxes 0, updated_at 0 and 0 images.
C13_NeverRebuiltReadsZero ==
  \A q \in Readers :
    ~ hist_exists /\ rd[q].pc = "responded" /\ hist.read_error[q] # "io" =>
      rd[q].status = 200 /\ ZeroResult(q)

\* both threshold reads over the committed aggregate tables at threshold T
ReadsAt(T) ==
  << read_label_counts_at_threshold(yfcc_label_conf_hist, T),
     read_images_with_boxes_at_threshold(yfcc_images_maxbin_hist, T) >>

\* C14: a minConfidence outside [0,1] is clamped before binning.  conf_to_bin
\* returns a bin in 0..100 for every threshold; every threshold below 0 gives
\* the results of threshold 0 and every threshold above 1 those of threshold
\* 1; a /freqs request with such a min_conf that met no store error is
\* answered 200 with the results of the clamped threshold.
C14_ThresholdClamped ==
  /\ \A T \in Thresholds :
       /\ conf_to_bin(T) \in Bins
       /\ T < 0 => conf_to_bin(T) = 0 /\ ReadsAt(T) = ReadsAt(0)
       /\ T > Scale => conf_to_bin(T) = 100 /\ ReadsAt(T) = ReadsAt(Scale)
  /\ \A q \in Readers :
       LET p == hist.requested[q] IN
       /\ rd[q].pc = "responded" /\ hist.read_error[q] = "none"
       /\ p.kind = "float" /\ (p.value < 0 \/ p.value > Scale)
       => /\ rd[q].status = 200
          /\ rd[q].min_conf = (IF p.value < 0 THEN 0 ELSE Scale)
          /\ rd[q].counts = ReadsAt(rd[q].min_conf)[1].counts
          /\ rd[q].images = ReadsAt(rd[q].min_conf)[2]

\* a request with min_conf = -0.5 has been answered with the counts of
\* threshold 0, which are not all zero
C14_Witness ==
  \E q \in Readers :
    /\ rd[q].pc = "responded" /\ rd[q].status = 200
    /\ hist.requested[q].kind = "float" /\ hist.requested[q].value < 0
    /\ rd[q].counts["cat"] > 0
    /\ rd[q].images = ReadsAt(0)[2] /\ rd[q].images > 0

\* C15 (as claimed): a store I/O error during a read operation is surfaced as
\* an empty or zeroed result and does not propagate: a /freqs request in which
\* a read met a store error is answered 200 with zeroed results.
C15_ReadErrorZeroed ==
  \A q \in Readers :
    rd[q].pc = "responded" /\ hist.read_error[q] = "io" =>
      rd[q].status = 200 /\ ZeroResult(q)

\* the text holds a character that no integer is written with
NonNumeric(text) == \E i \in DOMAIN text : text[i] \notin Digits \cup { "-", "+", " " }

\* the /api/images request was rejected as a client error with a message
Rejected == ia.status \in 400 .. 499 /\ ia.error # ""

\* C16 (as claimed): every malformed request parameter is answered with a
\* client-error (4xx) response that carries a message: a non-integer limit or
\* offset and a conf parameter with a non-numeric term on /api/images, and a
\* non-numeric min_conf on /freqs; none ends in an unhandled exception (500) or
\* in a silently substituted default.
C16_MalformedRejected ==
  /\ ia.pc = "responded" =>
       /\ ia.limit_param.given /\ NonNumeric(ia.limit_param.text) => Rejected
       /\ ia.offset_param.given /\ NonNumeric(ia.offset_param.text) => Rejected
       /\ (\E i \in DOMAIN hist.conf_terms : hist.conf_terms[i].kind = "text") => Rejected
  /\ \A q \in Readers :
       rd[q].pc = "responded" /\ hist.requested[q].kind = "text" => rd[q].status \in 400 .. 499

\* the images that have, for every requested label, a detection of that label
\* whose confidence lies in one of the ranges (any confidence without ranges)
HaveEveryLabel(bb, labels, conf_ranges) ==
  { img \in ImagesWithDetection(bb) :
      \A lab \in { labels[k] : k \in DOMAIN labels } :
        \E i \in DOMAIN bb :
          /\ bb[i].image_file_id = img
          /\ bb[i].label = lab
          /\ \/ conf_ranges.none
             \/ \E n \in DOMAIN conf_ranges.ranges :
                  /\ conf_ranges.ranges[n][1] <= bb[i].confidence_score
                  /\ bb[i].confidence_score < conf_ranges.ranges[n][2] }

\* C17: with a non-empty label list, the images fetch_images_for_labels
\* matches (before ordering and paging) are exactly those that have, for every
\* distinct requested label, a detection of that label with a confidence in
\* the union of the ranges (any confidence without ranges).  Every image of
\* the returned page is one of them, and a page that starts at offset 0 and
\* is long enough holds them all.
C17_EveryLabelMatched ==
  ia.pc = "responded" /\ ia.status = 200 /\ ia.labels # << >> =>
    LET expected == HaveEveryLabel(bb_table, ia.labels, ia.conf_ranges)
        page     == { ia.images[k] : k \in DOMAIN ia.images }
    IN  /\ images_having_labels(bb_table, yfcc_index, ia.labels, ia.conf_ranges) = expected
        /\ page \subseteq expected
        /\ ia.offset = 0 /\ ia.limit >= Cardinality(expected) => page = expected

\* a request for cat and unicorn with ranges was answered with the one image
\* that has both, while another image has cat only
C17_Witness ==
  /\ ia.pc = "responded" /\ ia.status = 200
  /\ { ia.labels[k] : k \in DOMAIN ia.labels } = { "cat", "unicorn" }
  /\ ~ ia.conf_ranges.none
  /\ ia.images = << 2 >>
  /\ \E i \in DOMAIN bb_table : bb_table[i].image_file_id = 1 /\ bb_table[i].label = "cat"
  /\ \A i \in DOMAIN bb_table : bb_table[i].image_file_id = 1 => bb_table[i].label # "unicorn"

\* confidences a detection can have: 0, 0.45, 0.457, 0.46, 0.90, 1.0
Confidences == { 0, 45000000, 45700000, 46000000, 90000000, Scale }

\* clamp of a bin value to 0..100
ClampBin(n) == IF n < 0 THEN 0 ELSE IF n > 100 THEN 100 ELSE n

\* the bins LO..HI a well-formed term stands for
TermBins(term) ==
  LET A == ClampBin(term.a)
      B == ClampBin(term.b)
  IN  IF A <= B THEN A .. B ELSE B .. A

\* every term of the list is an integer or a pair of integers
WellFormed(terms) == \A i \in DOMAIN terms : terms[i].kind \in { "int", "pair" }

\* C18 (as claimed): range terms are bin-inclusive on both ends against the
\* build-side binning.  For a conf parameter of well-formed terms and every
\* confidence c in [0,1], the range predicate of fetch_images_for_labels
\* accepts c if and only if the build-side bin of c lies in LO..HI of one of
\* the terms; so confidence 1.0 (bin 100) is accepted by '90-100' and '100'.
C18_RangesBinInclusive ==
  ia.pc = "fetch" /\ hist.conf_terms # << >> /\ WellFormed(hist.conf_terms) =>
    \A c \in Confidences :
      conf_sql(c, ia.conf_ranges)
        <=> \E i \in DOMAIN hist.conf_terms :
              Max(0, Min(100, (c + 1) \div BinWidth)) \in TermBins(hist.conf_terms[i])

RECURSIVE ExpectedRanges(_)
\* the ranges the terms stand for: (lo/100, min((hi+1)/100, 1.0)) for every
\* term that is not empty, in order
ExpectedRanges(terms) ==
  IF terms = << >> THEN << >>
  ELSE IF Head(terms).kind = "empty" THEN ExpectedRanges(Tail(terms))
  ELSE LET A  == ClampBin(Head(terms).a)
           B  == ClampBin(Head(terms).b)
           lo == IF A <= B THEN A ELSE B
           hi == IF A <= B THEN B ELSE A
           up == IF (hi + 1) * BinWidth > Scale THEN Scale ELSE (hi + 1) * BinWidth
       IN  << << lo * BinWidth, up >> >> \o ExpectedRanges(Tail(terms))

\* C19: parse_conf_ranges_0_100 maps every well-formed term to
\* (lo/100, min((hi+1)/100, 1.0)), lo = hi = clamp(N) for a single integer N,
\* lo and hi the smaller and larger of clamp(A), clamp(B) for a pair A-B; the
\* output has one entry per non-empty term, in input order (no filter when
\* there is none); '40-45,50,90-100' gives [(0.40,0.46),(0.50,0.51),(0.90,1.0)].
C19_ParseRanges ==
  /\ ia.pc # "parse" /\ (\A i \in DOMAIN hist.conf_terms :
                           hist.conf_terms[i].kind \in { "int", "pair", "empty" })
     => /\ ~ ia.conf_ranges.raised
        /\ ia.conf_ranges.ranges = ExpectedRanges(hist.conf_terms)
        /\ ia.conf_ranges.none <=> ExpectedRanges(hist.conf_terms) = << >>
  /\ parse_conf_ranges_0_100(<< "4", "0", "-", "4", "5", ",", "5", "0", ",",
                                "9", "0", "-", "1", "0", "0" >>).ranges
       = << << 40000000, 46000000 >>, << 50000000, 51000000 >>, << 90000000, 100000000 >> >>

\* '40-45,50,90-100' has been parsed
C19_Witness ==
  /\ ia.pc = "fetch"
  /\ ia.conf_str = << "4", "0", "-", "4", "5", ",", "5", "0", ",", "9", "0", "-", "1", "0", "0" >>
  /\ Len(ia.conf_ranges.ranges) = 3
  /\ ia.conf_ranges.ranges[3] = << 90000000, Scale >>

\* C20 (as claimed): a malformed term is always an error, never silently
\* dropped.  When a term of the conf parameter is non-numeric text, lacks a
\* bound ('40-', '-5') or is an empty term between commas,
\* parse_conf_ranges_0_100 fails.
C20_MalformedAlwaysError ==
  /\ ia.pc # "parse"
  /\ \E i \in DOMAIN hist.conf_terms :
       \/ hist.conf_terms[i].kind \in { "text", "nobound" }
       \/ hist.conf_terms[i].kind = "empty" /\ 1 < i /\ i < Len(hist.conf_terms)
  => ia.conf_ranges.raised

\* C20 (amended): parse_conf_ranges_0_100 fails exactly when some term that is
\* not empty after stripping is non-numeric text or lacks a bound; empty and
\* blank terms are skipped, and without a failure the output has one range
\* per remaining term.
C20_MalformedNonEmptyError ==
  ia.pc # "parse" =>
    /\ ia.conf_ranges.raised
         <=> \E i \in DOMAIN hist.conf_terms : hist.conf_terms[i].kind \in { "text", "nobound" }
    /\ ~ ia.conf_ranges.raised =>
         Len(ia.conf_ranges.ranges)
           = Cardinality({ i \in DOMAIN hist.conf_terms : hist.conf_terms[i].kind \in { "int", "pair" } })

\* a conf parameter of a pair, an empty term and a term without a bound has
\* been parsed, and the parser raised
C20_Witness ==
  /\ ia.pc = "responded" /\ ia.conf_ranges.raised
  /\ Len(hist.conf_terms) = 3
  /\ hist.conf_terms[1].kind = "pair"
  /\ hist.conf_terms[2].kind = "empty"
  /\ hist.conf_terms[3].kind = "nobound"

\* the range spec that names every bin: 0-100
FullRangeSpec == << "0", "-", "1", "0", "0" >>

RangeValues ==
  { r \in { parse_conf_ranges_0_100(strip(Join(terms))) : terms \in RequestTermLists } : ~ r.raised }

\* the index rows indexed later than the image, and those indexed no earlier
Newer(img) == { o \in yfcc_index : index_ts(o) > index_ts(img) }
NotOlder(img) == { o \in yfcc_index : index_ts(o) >= index_ts(img) }

\* C22: with an empty label list fetch_images_for_labels returns the most
\* recently indexed images of the whole image index, with or without
\* detections: the page holds min(limit, rows left after the offset) distinct
\* index rows, the k-th of them at place offset + k of the index in descending
\* indexing time, and the result is the same for every ranges argument.
C22_NoLabelsMostRecent ==
  ia.pc = "responded" /\ ia.status = 200 /\ ia.labels = << >> =>
    /\ Len(ia.images) = Max(0, Min(ia.limit, Cardinality(yfcc_index) - ia.offset))
    /\ \A k \in DOMAIN ia.images :
         /\ ia.images[k] \in yfcc_index
         /\ Cardinality(Newer(ia.images[k])) < ia.offset + k
         /\ Cardinality(NotOlder(ia.images[k])) >= ia.offset + k
         /\ \A m \in DOMAIN ia.images : m # k => ia.images[m] # ia.images[k]
    /\ \A r \in RangeValues :
         fetch_images_for_labels(bb_table, yfcc_index, ia.labels, ia.limit, ia.offset, r)
           = fetch_images_for_labels(bb_table, yfcc_index, ia.labels, ia.limit, ia.offset,
                                     ia.conf_ranges)

\* a request without labels, with ranges and limit 1, was answered with the
\* later of two indexed images, which has no detection
C22_Witness ==
  /\ ia.pc = "responded" /\ ia.status = 200 /\ ia.labels = << >>
  /\ ~ ia.conf_ranges.none
  /\ ia.limit = 1 /\ ia.offset = 0
  /\ yfcc_index = { 1, 2 }
  /\ ia.images = << 2 >>
  /\ \A i \in DOMAIN bb_table : bb_table[i].image_file_id # 2

\* the images the request matches, before ordering and paging
Matching ==
  IF ia.labels # << >>
  THEN images_having_labels(bb_table, yfcc_index, ia.labels, ia.conf_ranges)
  ELSE yfcc_index

\* C23 (as claimed): the results of fetch_images_for_labels are in
\* non-increasing order of indexing time, and images with equal indexing time
\* come in the same order in every call: with no writes in between, a page
\* and the page after it (same labels, ranges and limit, offset moved on by
\* limit) have no image in common and skip no matching image, that is, the
\* two pages one after the other are one page of twice the limit.
C23_PagesStable ==
  ia.pc = "responded" /\ ia.status = 200 =>
    /\ \A i, j \in DOMAIN ia.images :
         i < j => index_ts(ia.images[i]) >= index_ts(ia.images[j])
    /\ hist.next_page =>
         /\ \A i \in DOMAIN hist.prev_images, j \in DOMAIN ia.images :
              hist.prev_images[i] # ia.images[j]
         /\ hist.prev_images \o ia.images
              \in fetch_images_for_labels(bb_table, yfcc_index, ia.labels, 2 * ia.limit,
                                          ia.offset - ia.limit, ia.conf_ranges)

\* the integer a limit or offset parameter stands for (the default when the
\* parameter is absent)
IntGiven(param, default) == IF param.given THEN py_int(param.text).value ELSE default

\* C24: for every integer limit and offset given to GET /api/images the
\* effective limit is max(1, min(500, limit)) and the effective offset is
\* max(0, offset); the response echoes the effective values and its images
\* list has at most the effective limit entries.
C24_LimitOffsetClamped ==
  ia.pc = "responded" /\ ia.status = 200 =>
    LET limit  == IntGiven(ia.limit_param, DefaultLimit)
        offset == IntGiven(ia.offset_param, DefaultOffset)
    IN  /\ ia.limit = IF limit < 1 THEN 1 ELSE IF limit > 500 THEN 500 ELSE limit
        /\ ia.offset = IF offset < 0 THEN 0 ELSE offset
        /\ Len(ia.images) <= ia.limit

\* limit=0 and offset=-1 were answered with limit 1, offset 0 and one image of
\* the two indexed
C24_Witness ==
  /\ ia.pc = "responded" /\ ia.status = 200
  /\ ia.limit_param = Given(<< "0" >>) /\ ia.offset_param = Given(<< "-", "1" >>)
  /\ ia.limit = 1 /\ ia.offset = 0
  /\ ia.labels = << >> /\ Cardinality(yfcc_index) = 2 /\ Len(ia.images) = 1

RECURSIVE WithoutRepeats(_)
\* the label list with every repeated label removed (first occurrences kept)
WithoutRepeats(labels) ==
  IF labels = << >> THEN << >>
  ELSE LET front == WithoutRepeats(SubSeq(labels, 1, Len(labels) - 1))
           last  == labels[Len(labels)]
       IN  IF \E i \in DOMAIN front : front[i] = last THEN front ELSE Append(front, last)

\* C30: repeating a label in the request does not change the result of
\* fetch_images_for_labels: for every label list, ranges, limit and offset the
\* images returned are those returned for the list without the repeats.
C30_RepeatedLabelIgnored ==
  ia.pc = "responded" /\ ia.status = 200 =>
    /\ ia.images \in fetch_images_for_labels(bb_table, yfcc_index, WithoutRepeats(ia.labels),
                                             ia.limit, ia.offset, ia.conf_ranges)
    /\ fetch_images_for_labels(bb_table, yfcc_index, WithoutRepeats(ia.labels),
                               ia.limit, ia.offset, ia.conf_ranges)
         = fetch_images_for_labels(bb_table, yfcc_index, ia.labels,
                                   ia.limit, ia.offset, ia.conf_ranges)

\* a request for unicorn, cat, cat was answered with an image that has one
\* cat and one unicorn
C30_Witness ==
  /\ ia.pc = "responded" /\ ia.status = 200
  /\ ia.labels = << "unicorn", "cat", "cat" >>
  /\ WithoutRepeats(ia.labels) = << "unicorn", "cat" >>
  /\ ia.images # << >>
  /\ \A k \in DOMAIN ia.images :
       Cardinality({ i \in DOMAIN bb_table : bb_table[i].image_file_id = ia.images[k] }) = 2

\* C25: in every /freqs response the labels payload has one entry per
\* vocabulary label, whose fraction is count / totalBoxes.  When totalBoxes is
\* 0 every fraction is 0 and there is no division by zero; when totalBoxes is
\* positive every count lies between 0 and totalBoxes and the counts behind
\* the fractions add up to totalBoxes.
C25_Fractions ==
  \A q \in Readers :
    rd[q].pc = "responded" /\ rd[q].status = 200 =>
      LET payload == rd[q].labels_payload
          total   == rd[q].total_boxes
      IN  /\ DOMAIN payload = LABELS
          /\ \A lab \in LABELS : payload[lab].den # 0
          /\ total = 0 => \A lab \in LABELS : payload[lab].num = 0
          /\ total > 0 =>
               /\ \A lab \in LABELS :
                    /\ payload[lab].num * total = rd[q].counts[lab] * payload[lab].den
                    /\ rd[q].counts[lab] \in 0 .. total
               /\ SumCounts(rd[q].counts, LABELS) = total

\* a response over a histogram with two cat boxes at or above the threshold:
\* the fraction of cat is 2/2 and that of dog 0/2
C25_Witness ==
  \E q \in Readers :
    /\ rd[q].pc = "responded" /\ rd[q].status = 200
    /\ rd[q].total_boxes = 2
    /\ rd[q].labels_payload["cat"] = [ num |-> 2, den |-> 2 ]
    /\ rd[q].labels_payload["dog"] = [ num |-> 0, den |-> 2 ]

\* clamp(floor(confidence * 100 + epsilon), 0, 100): the bin b of 0..100 with
\* b <= confidence * 100 + epsilon < b + 1, the ends taking what lies beyond
ExpectedBin(confidence) ==
  CHOOSE b \in Bins :
    /\ b = 0 \/ b * BinWidth <= confidence + 1
    /\ b = 100 \/ confidence + 1 < (b + 1) * BinWidth

\* C27: every row stored by a rebuild has its bin key in 0..100, the key being
\* clamp(floor(confidence * 100 + epsilon), 0, 100) of a detection (of an
\* image's highest confidence in the max-bin histogram), has a strictly
\* positive count, and no two rows of a table have the same key, for every
\* Detection Store content, confidences of exactly 0 and exactly 1 included.
C27_RowsWellFormed ==
  /\ \A row \in yfcc_label_conf_hist :
       /\ row.conf_bin \in 0 .. 100
       /\ row.box_count > 0
       /\ \E i \in DOMAIN bb_table :
            /\ bb_table[i].label = row.label
            /\ ExpectedBin(bb_table[i].confidence_score) = row.conf_bin
       /\ \A other \in yfcc_label_conf_hist :
            other.label = row.label /\ other.conf_bin = row.conf_bin => other = row
  /\ \A row \in yfcc_images_maxbin_hist :
       /\ row.max_bin \in 0 .. 100
       /\ row.image_count > 0
       /\ \E i \in DOMAIN bb_table :
            /\ ExpectedBin(bb_table[i].confidence_score) = row.max_bin
            /\ \A j \in DOMAIN bb_table :
                 bb_table[j].image_file_id = bb_table[i].image_file_id
                   => bb_table[j].confidence_score <= bb_table[i].confidence_score
       /\ \A other \in yfcc_images_maxbin_hist : other.max_bin = row.max_bin => other = row

\* a rebuild has committed over a store with confidences 0 and 1: the label
\* histogram has the bins 0 and 100 and so has the max-bin histogram
C27_Witness ==
  /\ \E r \in Rebuilders : hist.committed[r]
  /\ { row.conf_bin : row \in yfcc_label_conf_hist } = { 0, 100 }
  /\ { row.max_bin : row \in yfcc_images_maxbin_hist } = { 0, 100 }
  /\ \E i \in DOMAIN bb_table : bb_table[i].confidence_score = 0
  /\ \E i \in DOMAIN bb_table : bb_table[i].confidence_score = Scale

\* the rows of bb_table of one image
BoxesOf(img) == { i \in DOMAIN bb_table : bb_table[i].image_file_id = img }

\* C28 (as claimed): in the Detection Store the pipeline produces, the
\* bounding_box_number values of the rows of an image are unique positive
\* integers, 1..n without repeats, after any sequence of pipeline runs, a
\* restarted run and a run over an image already in yfcc_index included.
C28_BoxNumbersUnique ==
  \A i \in DOMAIN bb_table :
    /\ bb_table[i].bounding_box_number \in 1 .. Cardinality(BoxesOf(bb_table[i].image_file_id))
    /\ \A j \in BoxesOf(bb_table[i].image_file_id) :
         bb_table[j].bounding_box_number = bb_table[i].bounding_box_number => j = i

\* the rebuild waits for a table lock another rebuild holds
Blocked(r) ==
  \/ rb[r].pc = "truncate_label" /\ ExclusiveHeldByOther("label", r)
  \/ rb[r].pc = "truncate_maxbin" /\ ExclusiveHeldByOther("maxbin", r)

\* C29: two rebuild_histograms calls that overlap in time can both complete
\* (they never wait for each other) and neither meets a primary-key violation
\* in its INSERTs, and the committed aggregate contents are those of a single
\* rebuild over the Detection Store: no row is counted twice and no row of
\* the earlier rebuild stays next to rows of the later one.
C29_OverlapSerialized ==
  /\ \E r \in DOMAIN rb : ~ Blocked(r)
  /\ \A r \in DOMAIN rb :
       /\ rb[r].pc = "insert_label" =>
            ~ label_hist_conflict(rb[r].tx_label, label_hist_select(bb_table, rb[r].now))
       /\ rb[r].pc = "insert_maxbin" =>
            ~ maxbin_hist_conflict(rb[r].tx_maxbin, maxbin_hist_select(bb_table, rb[r].now))
  /\ \/ Aggregates = << {}, {} >>
     \/ \E now \in 1 .. MaxTime :
          Aggregates = << label_hist_select(bb_table, now), maxbin_hist_select(bb_table, now) >>

\* the second of two overlapping rebuilds has committed after the first: it
\* had read the clock and was waiting at its TRUNCATE when the first
\* committed, and the tables hold its rows only
C29_Witness ==
  \E r, o \in DOMAIN rb :
    /\ r # o
    /\ hist.committed[r] /\ hist.committed[o]
    /\ rb[r].pc = "responded" /\ rb[o].pc = "responded"
    /\ rb[r].now # rb[o].now
    /\ hist.pre[r] = << {}, {} >> /\ hist.pre[o] = << {}, {} >>
    /\ yfcc_label_conf_hist # {}
    /\ \A row \in yfcc_label_conf_hist : row.updated_at = rb[o].now

\* the updated_at values of the committed rows of both aggregate tables
UpdatedAtValues ==
  { row.updated_at : row \in yfcc_label_conf_hist } \cup
  { row.updated_at : row \in yfcc_images_maxbin_hist }

\* C26 (as claimed): after every committed rebuild all rows of both aggregate
\* tables carry one and the same updated_at, the time that rebuild took;
\* read_label_counts_at_threshold reports that value as updatedAt (0 when the
\* label histogram is empty); and across any sequence of rebuilds, overlapping
\* ones included, the reported updatedAt never decreases.
C26_UpdatedAtNeverDecreases ==
  [][ /\ \A r \in DOMAIN rb :
           rb[r].pc = "commit" /\ hist'.committed[r] =>
             /\ UpdatedAtValues' \subseteq { rb[r].now }
             /\ updated_at_select(yfcc_label_conf_hist')
                  = IF yfcc_label_conf_hist' = {} THEN 0 ELSE rb[r].now
      /\ updated_at_select(yfcc_label_conf_hist') >= updated_at_select(yfcc_label_conf_hist)
    ]_vars

====
